---- MODULE Spec2Model ----
(***************************************************************************)
(* ApexQuant simulated exchange: SimulatedExchange (order registry,        *)
(* submit_order / on_tick / cancel_order / update_daily), the              *)
(* SimulationAccount ledger it owns and the OrderMatcher it calls.         *)
(*                                                                         *)
(* Money is held in integer cents (1000 = 10.00 yuan); round_to_cent is    *)
(* round-half-away-from-zero on a rational number of cents.  An order id   *)
(* is the value of order_counter_ at submission, which is the only part of *)
(* "ORDER_<ms>_<symbol>_<counter>" that distinguishes two orders.          *)
(*                                                                         *)
(* Spec           the exchange under sequential calls                      *)
(* SpecLimitQueue a LimitQueue under the calls of its client               *)
(* SpecDesk       an exchange and a LimitQueue owned by one client         *)
(* SpecThreads    submit_order called by several threads                   *)
(* SpecReaders    on_tick beside threads that submit, cancel and read      *)
(* SpecTwin       two exchanges driven by the same calls                   *)
(* SpecLimitOrders LIMIT orders of both sides under quotes around them     *)
(* SpecLocks      the lock operations of concurrent calls                  *)
(* SpecMatcher    the OrderMatcher called on its own                       *)
(* SpecLedger     the SimulationAccount called on its own                  *)
(* SpecRequeue    the LimitQueue handed orders that may be queued already  *)
(***************************************************************************)
EXTENDS Integers, Sequences, FiniteSets, TLC

VARIABLES
    matcher_build,      \* which OrderMatcher translation unit is linked
    orders,             \* orders_ : order id -> SimulatedOrder
    trade_history,      \* trade_history_
    current_time,       \* current_time_ (ms)
    available_cash,     \* account_.available_cash_
    withdrawable_cash,  \* account_.withdrawable_cash_
    frozen_cash,        \* account_.frozen_cash_
    today_sell_amount,  \* account_.today_sell_amount_
    realized_pnl,       \* account_.realized_pnl_
    positions,          \* account_.positions_ : symbol -> Position
    last_call,          \* the public call that produced this state, with its return value
    lot_date,           \* history: date of the latest BUY fill per symbol
    lot_locked,         \* history: shares bought on lot_date and not yet past a settlement
    order_counter,      \* order_counter_
    limit_up_queues,    \* LimitQueue::limit_up_queues_ : symbol -> orders in arrival order
    limit_down_queues,  \* LimitQueue::limit_down_queues_
    mutex_,             \* SimulatedExchange::mutex_ : its holder, or "free"
    threads,            \* the position of each strategy thread inside submit_order
    tick_run,           \* the on_tick in progress: the ledger calls it has still to make
    twin,               \* a second SimulatedExchange, constructed with the same capital
    account_mutex_,     \* SimulationAccount::mutex_ : its holder, or "free"
    queue_mutex_,       \* LimitQueue::mutex_ : its holder, or "free"
    calls_made          \* the number of calls the client threads have begun

exchange_vars == <<matcher_build, orders, trade_history, current_time, available_cash,
                   withdrawable_cash, frozen_cash, today_sell_amount, realized_pnl,
                   positions, lot_date, lot_locked, order_counter>>

queue_vars == <<limit_up_queues, limit_down_queues>>

thread_vars == <<mutex_, threads, tick_run>>

lock_vars == <<account_mutex_, queue_mutex_, calls_made>>

twin_vars == <<twin, lock_vars>>

vars == <<exchange_vars, last_call, queue_vars, thread_vars, twin_vars>>

----------------------------------------------------------------------------
(* Bounds and input menus *)

MaxOrders == 3

InitialCapital == 200600

Symbols == {"600000", "300750"}

MS_PER_DAY == 24 * 3600 * 1000

MARKET_ESTIMATE_PRICE == 100000000

MaxCents == (2^30 - 1) * 2 + 1

SettleDates == {2, 3}

NoPosition == [volume |-> 0]

OrderIn(sym, side, type, price, volume, slippage_rate) ==
    [symbol |-> sym, side |-> side, type |-> type, price |-> price, volume |-> volume,
     slippage_rate |-> slippage_rate]

\* The orders a strategy submits (prices in cents, slippage_rate in parts per
\* million; 100 is the default of SimulatedOrder)
OrderInputs ==
    { OrderIn("600000", "BUY", "LIMIT", 1000, 100, 100),
      OrderIn("600000", "BUY", "LIMIT", 1000, 150, 100),
      OrderIn("300750", "BUY", "LIMIT", 1000, 200, 1000),
      OrderIn("600000", "BUY", "MARKET", 0, 100, 100),
      OrderIn("600000", "SELL", "MARKET", 0, 100, 100),
      OrderIn("600000", "SELL", "MARKET", 0, 150, 100),
      OrderIn("600000", "BUY", "LIMIT", 1000, 0, 100),
      OrderIn("600000", "SELL", "LIMIT", 0, 100, 100) }

TickIn(sym, day, last, bid, ask, vol, lc) ==
    [symbol |-> sym, timestamp |-> day * MS_PER_DAY, last_price |-> last,
     bid_price |-> bid, ask_price |-> ask, volume |-> vol, last_close |-> lc]

\* The ticks the feed delivers, in time order: a normal quote on two days, a
\* quote above the limit prices of the BUY orders, a thin tick, a quote without
\* last_close far below the previous prices, and a quote of the second symbol
Ticks ==
    { TickIn("600000", 1, 1000, 999, 1000, 1000000, 1000),
      TickIn("600000", 2, 1000, 999, 1000, 1000000, 1000),
      TickIn("600000", 2, 1010, 1009, 1010, 1000000, 1000),
      TickIn("600000", 1, 1000, 999, 1000, 1000, 1000),
      TickIn("600000", 2, 4, 4, 5, 0, 0),
      TickIn("300750", 2, 1000, 999, 1000, 1000000, 1000) }

----------------------------------------------------------------------------
(* Money utilities *)

\* std::round(value * 100) / 100 for value = n/d cents, n >= 0, d > 0
round_to_cent(n, d) == n \div d + (IF 2 * (n % d) >= d THEN 1 ELSE 0)

Max(a, b) == IF a >= b THEN a ELSE b
Min(a, b) == IF a <= b THEN a ELSE b

----------------------------------------------------------------------------
(* SimulationAccount: the ledger.  An account value `a` is the record       *)
(* [available_cash, withdrawable_cash, frozen_cash, today_sell_amount,     *)
(*  realized_pnl, positions].                                              *)

\* freeze_cash without its comparison with available_cash
freeze_cash_unchecked(a, n, d) ==
    LET amount == round_to_cent(n, d) IN
    IF n < 0 THEN [ok |-> FALSE, a |-> a]
    ELSE [ok |-> TRUE,
          a  |-> [a EXCEPT !.available_cash = @ - amount,
                           !.frozen_cash = @ + amount]]

\* freeze_cash(amount), amount = n/d cents
freeze_cash(a, n, d) ==
    LET amount == round_to_cent(n, d) IN
    IF n < 0 THEN [ok |-> FALSE, a |-> a]
    ELSE IF a.available_cash < amount THEN [ok |-> FALSE, a |-> a]
    ELSE [ok |-> TRUE,
          a  |-> [a EXCEPT !.available_cash = @ - amount,
                           !.frozen_cash = @ + amount]]

\* unfreeze_cash that releases the reservation without returning it to available_cash
unfreeze_cash_not_returned(a, n, d) ==
    LET amount == Min(round_to_cent(n, d), a.frozen_cash) IN
    IF n < 0 THEN a
    ELSE [a EXCEPT !.frozen_cash = @ - amount]

\* unfreeze_cash(amount), amount = n/d cents
unfreeze_cash(a, n, d) ==
    LET amount == Min(round_to_cent(n, d), a.frozen_cash) IN
    IF n < 0 THEN a
    ELSE [a EXCEPT !.frozen_cash = @ - amount,
                   !.available_cash = @ + amount]

\* Position(sym, vol, cost, date)
NewPosition(volume, cost, date) ==
    [volume |-> volume, available_volume |-> 0, frozen_volume |-> 0,
     avg_cost |-> cost, current_price |-> cost, market_value |-> volume * cost,
     unrealized_pnl |-> 0, buy_date |-> date]

\* add_position(symbol, volume, price, buy_date); price already in cents
add_position(a, symbol, volume, price, buy_date) ==
    LET cost == volume * price
        pos  == a.positions[symbol]
        nvol == pos.volume + volume
        navg == round_to_cent(pos.volume * pos.avg_cost + cost, nvol)
        nmv  == nvol * pos.current_price
    IN
    IF symbol = "" \/ volume <= 0 \/ price <= 0 THEN [ok |-> FALSE, a |-> a]
    ELSE IF volume > 1000000000 \/ price > 1000000 * 100 THEN [ok |-> FALSE, a |-> a]
    ELSE IF pos = NoPosition
    THEN [ok |-> TRUE,
          a  |-> [a EXCEPT !.positions[symbol] = NewPosition(volume, price, buy_date)]]
    ELSE [ok |-> TRUE,
          a  |-> [a EXCEPT !.positions[symbol] =
                     [pos EXCEPT !.volume = nvol,
                                 !.avg_cost = navg,
                                 !.market_value = nmv,
                                 !.unrealized_pnl = nmv - nvol * navg]]]

\* The credit of a sale to the cash buckets inside reduce_position
credit_sale(a, revenue) ==
    [a EXCEPT !.available_cash = @ + revenue,
              !.today_sell_amount = @ + revenue]

\* reduce_position(symbol, volume, sell_price, realized_pnl&)
reduce_position(a, symbol, volume, sell_price) ==
    LET pos     == a.positions[symbol]
        cost    == volume * pos.avg_cost
        revenue == volume * sell_price
        pnl     == revenue - cost
        nvol    == pos.volume - volume
        a1      == [credit_sale(a, revenue) EXCEPT !.realized_pnl = @ + pnl]
        npos    == IF nvol = 0 THEN NoPosition
                   ELSE [pos EXCEPT !.volume = nvol,
                                    !.available_volume = Max(0, @ - volume),
                                    !.market_value = nvol * pos.current_price,
                                    !.unrealized_pnl =
                                        nvol * pos.current_price - nvol * pos.avg_cost]
    IN
    IF volume <= 0 \/ sell_price <= 0 THEN [ok |-> FALSE, a |-> a, pnl |-> 0]
    ELSE IF pos = NoPosition THEN [ok |-> FALSE, a |-> a, pnl |-> 0]
    ELSE IF pos.volume < volume THEN [ok |-> FALSE, a |-> a, pnl |-> 0]
    ELSE [ok |-> TRUE, a |-> [a1 EXCEPT !.positions[symbol] = npos], pnl |-> pnl]

\* update_position_price(symbol, current_price)
update_position_price(a, symbol, price) ==
    LET pos == a.positions[symbol] IN
    IF pos = NoPosition THEN a
    ELSE [a EXCEPT !.positions[symbol] =
             [pos EXCEPT !.current_price = price,
                         !.market_value = pos.volume * price,
                         !.unrealized_pnl = pos.volume * price - pos.volume * pos.avg_cost]]

\* update_available_volume(current_date)
update_available_volume(a, current_date) ==
    [a EXCEPT !.positions =
        [s \in Symbols |->
            IF a.positions[s] # NoPosition /\ a.positions[s].buy_date < current_date
            THEN [a.positions[s] EXCEPT
                     !.available_volume = a.positions[s].volume - a.positions[s].frozen_volume]
            ELSE a.positions[s]]]

\* daily_settlement(current_date)
daily_settlement(a, current_date) ==
    update_available_volume(
        [a EXCEPT !.withdrawable_cash = a.available_cash,
                  !.today_sell_amount = 0],
        current_date)

\* can_sell(symbol, volume, current_date)
can_sell(a, symbol, volume, current_date) ==
    LET pos == a.positions[symbol] IN
    IF pos = NoPosition THEN FALSE
    ELSE IF pos.buy_date = current_date THEN pos.available_volume >= volume
    ELSE (pos.volume - pos.frozen_volume) >= volume

\* freeze_position(symbol, volume)
freeze_position(a, symbol, volume) ==
    LET pos == a.positions[symbol] IN
    IF volume <= 0 THEN [ok |-> FALSE, a |-> a]
    ELSE IF pos = NoPosition THEN [ok |-> FALSE, a |-> a]
    ELSE IF pos.volume - pos.frozen_volume < volume THEN [ok |-> FALSE, a |-> a]
    ELSE [ok |-> TRUE, a |-> [a EXCEPT !.positions[symbol].frozen_volume = @ + volume]]

\* An unfreeze_position that leaves frozen_volume as it is
unfreeze_position_kept(a, symbol, volume) == a

\* unfreeze_position(symbol, volume)
unfreeze_position(a, symbol, volume) ==
    LET pos == a.positions[symbol] IN
    IF volume <= 0 \/ pos = NoPosition THEN a
    ELSE [a EXCEPT !.positions[symbol].frozen_volume = Max(0, @ - volume)]

\* get_total_assets()
get_total_assets(a) ==
    LET RECURSIVE Sum(_)
        Sum(S) == IF S = {} THEN 0
                  ELSE LET s == CHOOSE x \in S : TRUE
                       IN (IF a.positions[s] = NoPosition THEN 0
                           ELSE a.positions[s].market_value) + Sum(S \ {s})
    IN a.available_cash + a.frozen_cash + Sum(Symbols)

----------------------------------------------------------------------------
(* OrderMatcher *)

\* The characters of the symbols used as inputs (std::string contents)
SymbolChars(symbol) ==
    CASE symbol = "600000" -> <<"6", "0", "0", "0", "0", "0">>
      [] symbol = "300750" -> <<"3", "0", "0", "7", "5", "0">>
      [] OTHER -> <<>>

\* symbol.find(a + b) != npos for a two-character needle
HasPair(chars, a, b) ==
    \E i \in 1..(Len(chars) - 1) : chars[i] = a /\ chars[i + 1] = b

\* symbol.substr(0, 3) == a + b + c
StartsWith3(chars, a, b, c) ==
    Len(chars) >= 3 /\ chars[1] = a /\ chars[2] = b /\ chars[3] = c

\* get_limit_pct(symbol), in percent
get_limit_pct(symbol) ==
    LET c == SymbolChars(symbol) IN
    IF HasPair(c, "S", "T") \/ HasPair(c, "s", "t") THEN 5
    ELSE IF StartsWith3(c, "6", "8", "8") THEN 20
    ELSE IF StartsWith3(c, "3", "0", "0") THEN 20
    ELSE IF Len(c) >= 1 /\ (c[1] = "8" \/ c[1] = "4") THEN 30
    ELSE 10

\* check_limit_price(symbol, price, last_close)
check_limit_price(symbol, price, last_close) ==
    LET pct == get_limit_pct(symbol) IN
    IF last_close <= 0 THEN TRUE
    ELSE /\ price * 100 >= last_close * (100 - pct)
         /\ price * 100 <= last_close * (100 + pct)

\* check_liquidity(volume, tick, side)
check_liquidity(volume, tick) ==
    IF tick.volume <= 0 THEN TRUE
    ELSE volume <= tick.volume \div 10

\* The draws of dist_(rng_): |u| in tenths
UDraws == {0, 10}

\* calculate_slippage(side, base_price, volume, slippage_rate); the rate is in
\* parts per million, u is the magnitude (in tenths) of the draw that decides the
\* price.  The slippage is num/den cents; std::round rounds base + x half up and
\* base - x half down (away from zero, the price being positive).
calculate_slippage(side, base_price, volume, slippage_rate, u) ==
    LET num == IF volume > 10000 THEN base_price * slippage_rate * 3 * u
               ELSE base_price * slippage_rate * 2 * u
        den == 20000000
    IN
    IF side = "BUY" THEN base_price + round_to_cent(num, den)
    ELSE base_price - (2 * num + den - 1) \div (2 * den)

\* validate_order_volume(volume, side, available_volume = 0)
validate_order_volume(volume, side) ==
    IF volume <= 0 THEN "Order volume must be positive"
    ELSE IF volume > 1000000 THEN "Order volume exceeds maximum (1,000,000 shares)"
    ELSE IF side = "BUY" /\ volume % 100 # 0
         THEN "Buy volume must be multiple of 100 (lot size)"
    ELSE "OK"

\* calculate_total_commission(side, symbol, price, volume, commission_rate) of
\* a matcher constructed with the default stamp_tax_rate 0.001; the rate is in
\* parts per million, the fees are summed in millionths of a cent
calculate_total_commission(side, symbol, price, volume, commission_rate) ==
    LET amount       == price * volume
        commission   == Max(amount * commission_rate, 500 * 1000000)
        stamp_tax    == IF side = "SELL" THEN amount * 1000 ELSE 0
        chars        == SymbolChars(symbol)
        is_shanghai_stock ==
            \/ Len(chars) >= 1 /\ chars[1] = "6"
            \/ /\ Len(chars) >= 4
               /\ chars[1] = "s" /\ chars[2] = "h" /\ chars[3] = "." /\ chars[4] = "6"
        transfer_fee == IF is_shanghai_stock THEN volume * 2000 ELSE 0
    IN round_to_cent(commission + stamp_tax + transfer_fee, 1000000)

\* Step 1 of try_match_order in the two translation units of the repository
volume_check(build, volume, side) ==
    IF build = "part_005" THEN validate_order_volume(volume, side)
    ELSE IF volume <= 0 THEN "Order volume must be positive"
    ELSE "OK"

Rejected(reason) == [success |-> FALSE, filled_price |-> 0, filled_volume |-> 0,
                     reject_reason |-> reason]

Matched(price, volume) == [success |-> TRUE, filled_price |-> price,
                           filled_volume |-> volume, reject_reason |-> ""]

\* try_match_order(order, current_tick, check_price_limit)
try_match_order(build, order, tick, check_price_limit, u) ==
    LET v          == volume_check(build, order.volume, order.side)
        base_price == IF order.type = "MARKET"
                      THEN (IF order.side = "BUY" THEN tick.ask_price ELSE tick.bid_price)
                      ELSE order.price
        rate       == IF order.slippage_rate > 0 THEN order.slippage_rate ELSE 100
    IN
    IF v # "OK" THEN Rejected(v)
    ELSE IF order.type = "LIMIT" /\ order.side = "BUY" /\ tick.ask_price > order.price
         THEN Rejected("Buy limit price too low")
    ELSE IF order.type = "LIMIT" /\ order.side = "SELL" /\ tick.bid_price < order.price
         THEN Rejected("Sell limit price too high")
    ELSE IF check_price_limit /\ tick.last_close > 0
            /\ ~check_limit_price(order.symbol, base_price, tick.last_close)
         THEN (IF order.side = "BUY"
               THEN Rejected(IF build = "part_005" THEN "Price at limit up - queuing"
                             ELSE "Price at limit up")
               ELSE Rejected(IF build = "part_005" THEN "Price at limit down - queuing"
                             ELSE "Price at limit down"))
    ELSE IF ~check_liquidity(order.volume, tick) THEN Rejected("Insufficient liquidity")
    ELSE Matched(calculate_slippage(order.side, base_price, order.volume, rate, u),
                 order.volume)

----------------------------------------------------------------------------
(* SimulatedExchange *)

Account ==
    [available_cash |-> available_cash, withdrawable_cash |-> withdrawable_cash,
     frozen_cash |-> frozen_cash, today_sell_amount |-> today_sell_amount,
     realized_pnl |-> realized_pnl, positions |-> positions]

\* The part of the exchange an on_tick works on
Exchange ==
    [orders |-> orders, trade_history |-> trade_history, a |-> Account,
     lot_date |-> lot_date, lot_locked |-> lot_locked]

current_date_of(time) == time \div MS_PER_DAY

\* order.volume * estimate_price * 1.003 as the fraction n/d of cents; a MARKET
\* estimate that does not fit the model's integers is MaxCents, which exceeds
\* every balance the model reaches, as the true estimate does
freeze_amount_n(order) ==
    IF order.type = "LIMIT" THEN order.volume * order.price * 1003
    ELSE IF order.volume <= 20 THEN order.volume * (MARKET_ESTIMATE_PRICE \div 1000) * 1003
    ELSE MaxCents

freeze_amount_d(order) ==
    IF order.type = "LIMIT" THEN 1000
    ELSE IF order.volume <= 20 THEN 1
    ELSE 1

\* calculate_commission with no minimum charge
calculate_commission_without_minimum(side, filled_price, filled_volume) ==
    LET turnover   == filled_price * filled_volume
        stamp_tax  == IF side = "SELL" THEN turnover * 100 ELSE 0
    IN round_to_cent(turnover * 25 + stamp_tax, 100000)

\* calculate_commission(side, filled_price, filled_volume)
calculate_commission(side, filled_price, filled_volume) ==
    LET turnover   == filled_price * filled_volume
        commission == Max(turnover * 25, 500 * 100000)
        stamp_tax  == IF side = "SELL" THEN turnover * 100 ELSE 0
    IN round_to_cent(commission + stamp_tax, 100000)

\* A process_reject that releases the reservation and leaves the order PENDING
process_reject_left_pending(X, id) ==
    LET order == X.orders[id] IN
    [X EXCEPT !.a = IF order.side = "BUY"
                    THEN unfreeze_cash(X.a, freeze_amount_n(order), freeze_amount_d(order))
                    ELSE unfreeze_position(X.a, order.symbol, order.volume)]

\* process_reject(order, reason)
process_reject(X, id) ==
    LET order == X.orders[id]
        a1 == IF order.side = "BUY"
              THEN unfreeze_cash(X.a, freeze_amount_n(order), freeze_amount_d(order))
              ELSE unfreeze_position(X.a, order.symbol, order.volume)
    IN [X EXCEPT !.a = a1, !.orders[id].status = "REJECTED"]

\* A process_fill that marks the order FILLED and records no trade
record_fill_without_trade(X, id, m, commission, pnl) ==
    [X EXCEPT !.orders[id].status = "FILLED",
              !.orders[id].filled_volume = m.filled_volume]

\* Steps 3 and 4 of process_fill: the order becomes FILLED and its trade is recorded
record_fill(X, id, m, commission, pnl) ==
    LET order == X.orders[id] IN
    [X EXCEPT !.orders[id].status = "FILLED",
              !.orders[id].filled_volume = m.filled_volume,
              !.trade_history = Append(@,
                  [trade_id |-> Len(X.trade_history) + 1, order_id |-> id,
                   symbol |-> order.symbol, side |-> order.side,
                   price |-> m.filled_price, volume |-> m.filled_volume,
                   commission |-> commission, realized_pnl |-> pnl])]

\* History of the lots bought today, kept beside add_position
note_lot(X, symbol, volume, current_date) ==
    [X EXCEPT !.lot_date[symbol] = current_date,
              !.lot_locked[symbol] =
                  IF X.lot_date[symbol] = current_date THEN @ + volume ELSE volume]

\* process_fill, BUY branch
process_fill_buy(X, id, m, current_date) ==
    LET order       == X.orders[id]
        commission  == calculate_commission(order.side, m.filled_price, m.filled_volume)
        actual_cost == m.filled_volume * m.filled_price + commission
        a1 == unfreeze_cash(X.a, freeze_amount_n(order), freeze_amount_d(order))
        f  == freeze_cash(a1, actual_cost, 1)
        a2 == unfreeze_cash(f.a, actual_cost, 1)
        p  == add_position(a2, order.symbol, m.filled_volume, m.filled_price, current_date)
        X1 == IF p.ok THEN note_lot(X, order.symbol, m.filled_volume, current_date) ELSE X
    IN
    IF ~f.ok THEN process_reject([X EXCEPT !.a = a1], id)
    ELSE record_fill([X1 EXCEPT !.a = p.a], id, m, commission, 0)

\* process_fill, SELL branch
process_fill_sell(X, id, m) ==
    LET order      == X.orders[id]
        commission == calculate_commission(order.side, m.filled_price, m.filled_volume)
        r  == reduce_position(X.a, order.symbol, m.filled_volume, m.filled_price)
        f  == freeze_cash(r.a, commission, 1)
        a2 == unfreeze_cash(f.a, commission, 1)
        a3 == unfreeze_position(a2, order.symbol, m.filled_volume)
    IN
    IF ~r.ok THEN process_reject(X, id)
    ELSE record_fill([X EXCEPT !.a = a3], id, m, commission, r.pnl)

\* process_fill(order, match_result, current_date)
process_fill(X, id, m, current_date) ==
    IF X.orders[id].side = "BUY" THEN process_fill_buy(X, id, m, current_date)
    ELSE process_fill_sell(X, id, m)

\* A comparison of the whole reason with the word in place of find
Mentions_whole_reason(reason, word) == reason = word

\* reject_reason.find(word) != npos, for the reasons try_match_order returns
Mentions(reason, word) ==
    CASE word = "limit" ->
            reason \in {"Buy limit price too low", "Sell limit price too high",
                        "Price at limit up", "Price at limit down",
                        "Price at limit up - queuing", "Price at limit down - queuing"}
      [] word = "price" ->
            reason \in {"Buy limit price too low", "Sell limit price too high"}
      [] word = "limit price" ->
            reason \in {"Buy limit price too low", "Sell limit price too high"}
      [] word = "maximum" ->
            reason = "Order volume exceeds maximum (1,000,000 shares)"
      [] OTHER -> FALSE

\* The body of the loop of on_tick for one PENDING order of the tick's symbol
match_one(X, build, id, tick, current_date, u) ==
    LET m == try_match_order(build, X.orders[id], tick, TRUE, u) IN
    IF m.success THEN process_fill(X, id, m, current_date)
    ELSE IF ~Mentions(m.reject_reason, "limit") /\ ~Mentions(m.reject_reason, "price")
         THEN process_reject(X, id)
    ELSE X

\* The loop of on_tick over orders_, in the order `todo` the hash map yields
RECURSIVE match_all(_, _, _, _, _, _)
match_all(X, build, todo, tick, current_date, us) ==
    IF todo = <<>> THEN X
    ELSE match_all(match_one(X, build, Head(todo), tick, current_date, us[Head(todo)]),
                   build, Tail(todo), tick, current_date, us)

----------------------------------------------------------------------------
(* State after construction, and the public calls *)

\* The strategy threads that call submit_order concurrently
ThreadIds == {"t1", "t2"}

\* A thread outside submit_order
Idle == [pc |-> "idle"]

\* No on_tick is in progress
NoTick == [calls |-> <<>>]

Init ==
    /\ matcher_build \in {"order_matcher.cpp", "part_005"}
    /\ orders = <<>>
    /\ trade_history = <<>>
    /\ current_time = 0
    /\ available_cash = InitialCapital
    /\ withdrawable_cash = InitialCapital
    /\ frozen_cash = 0
    /\ today_sell_amount = 0
    /\ realized_pnl = 0
    /\ positions = [s \in Symbols |-> NoPosition]
    /\ last_call = [op |-> "construct", arg |-> 0, ret |-> 0]
    /\ lot_date = [s \in Symbols |-> 0]
    /\ lot_locked = [s \in Symbols |-> 0]
    /\ order_counter = 0
    /\ limit_up_queues = [s \in Symbols |-> <<>>]
    /\ limit_down_queues = [s \in Symbols |-> <<>>]
    /\ mutex_ = "free"
    /\ threads = [t \in ThreadIds |-> Idle]
    /\ tick_run = NoTick
    /\ twin = [orders |-> <<>>, trade_history |-> <<>>,
               a |-> [available_cash |-> InitialCapital,
                      withdrawable_cash |-> InitialCapital, frozen_cash |-> 0,
                      today_sell_amount |-> 0, realized_pnl |-> 0,
                      positions |-> [s \in Symbols |-> NoPosition]],
               lot_date |-> [s \in Symbols |-> 0],
               lot_locked |-> [s \in Symbols |-> 0]]
    /\ account_mutex_ = "free"
    /\ queue_mutex_ = "free"
    /\ calls_made = 0

SetAccount(a) ==
    /\ available_cash' = a.available_cash
    /\ withdrawable_cash' = a.withdrawable_cash
    /\ frozen_cash' = a.frozen_cash
    /\ today_sell_amount' = a.today_sell_amount
    /\ realized_pnl' = a.realized_pnl
    /\ positions' = a.positions

SetExchange(X) ==
    /\ orders' = X.orders
    /\ trade_history' = X.trade_history
    /\ lot_date' = X.lot_date
    /\ lot_locked' = X.lot_locked
    /\ SetAccount(X.a)

\* The order stored by submit_order, and the account after it
submitted(in, a, current_date) ==
    LET order == [symbol |-> in.symbol, side |-> in.side, type |-> in.type,
                  price |-> in.price, volume |-> in.volume, filled_volume |-> 0,
                  status |-> "PENDING", commission_rate |-> 250,
                  slippage_rate |-> in.slippage_rate]
        rejected == [order EXCEPT !.status = "REJECTED"]
        fc == freeze_cash(a, freeze_amount_n(order), freeze_amount_d(order))
        fp == freeze_position(a, order.symbol, order.volume)
    IN
    IF order.volume <= 0 THEN [order |-> rejected, a |-> a]
    ELSE IF order.type = "LIMIT" /\ order.price <= 0 THEN [order |-> rejected, a |-> a]
    ELSE IF order.side = "BUY"
         THEN (IF ~fc.ok THEN [order |-> rejected, a |-> a]
               ELSE [order |-> order, a |-> fc.a])
    ELSE IF ~can_sell(a, order.symbol, order.volume, current_date)
         THEN [order |-> rejected, a |-> a]
    ELSE IF ~fp.ok THEN [order |-> rejected, a |-> a]
    ELSE [order |-> order, a |-> fp.a]

\* A submit_order that does not take the mutex
lock_guard_absent(holder) == TRUE

\* std::lock_guard<std::mutex> lock(mutex_) can be passed
lock_guard_passes(holder) == holder = "free"

\* submit_order(order), for the orders of `menu`
submit_order_of(menu) ==
    /\ lock_guard_passes(mutex_)
    /\ Len(orders) < MaxOrders
    /\ \E in \in menu :
         LET r == submitted(in, Account, current_date_of(current_time)) IN
         /\ orders' = Append(orders, r.order)
         /\ SetAccount(r.a)
         /\ last_call' = [op |-> "submit_order", arg |-> 0, ret |-> Len(orders) + 1]
    /\ order_counter' = order_counter + 1
    /\ UNCHANGED <<matcher_build, trade_history, current_time, lot_date, lot_locked>>
    /\ UNCHANGED <<queue_vars, thread_vars, twin_vars>>

\* submit_order(order)
submit_order == submit_order_of(OrderInputs)

\* on_tick without its check of order.status
PendingOf_any_status(symbol) ==
    {i \in DOMAIN orders : orders[i].symbol = symbol}

\* The ids on_tick matches: PENDING orders of the tick's symbol
PendingOf(symbol) ==
    {i \in DOMAIN orders : orders[i].status = "PENDING" /\ orders[i].symbol = symbol}

\* The orders in which an iteration over the hash map can yield the ids of S
Iterations(S) ==
    {q \in [1..Cardinality(S) -> S] : \A i, j \in DOMAIN q : i # j => q[i] # q[j]}

\* on_tick(tick), for the ticks of `feed`; the feed delivers ticks with
\* non-decreasing timestamps
on_tick_of(feed) ==
    /\ lock_guard_passes(mutex_)
    /\ \E shape \in feed :
         LET ts   == shape.timestamp
             date == current_date_of(ts)
             X0   == [Exchange EXCEPT
                         !.a = update_position_price(Account, shape.symbol, shape.last_price)]
         IN /\ ts >= current_time
            /\ \E todo \in Iterations(PendingOf(shape.symbol)) :
                 \E us \in [PendingOf(shape.symbol) -> UDraws] :
                    /\ current_time' = ts
                    /\ SetExchange(match_all(X0, matcher_build, todo, shape, date, us))
                    /\ last_call' = [op |-> "on_tick", arg |-> shape, ret |-> 0]
    /\ UNCHANGED <<matcher_build, order_counter, queue_vars, thread_vars, twin_vars>>

\* on_tick(tick)
on_tick == on_tick_of(Ticks)

\* A cancel_order that marks the order CANCELLED and releases nothing
cancelled_without_release(a, order) ==
    [a |-> a, order |-> [order EXCEPT !.status = "CANCELLED"]]

\* The account and the order after a successful cancel_order
cancelled(a, order) ==
    [a |-> IF order.side = "BUY"
           THEN unfreeze_cash(a, freeze_amount_n(order), freeze_amount_d(order))
           ELSE unfreeze_position(a, order.symbol, order.volume),
     order |-> [order EXCEPT !.status = "CANCELLED"]]

\* cancel_order without its check of order.status
can_cancel_any_status(id) == id \in DOMAIN orders

\* cancel_order(order_id) returns true
can_cancel(id) == id \in DOMAIN orders /\ orders[id].status = "PENDING"

\* cancel_order(order_id); id MaxOrders + 1 is never in the registry
cancel_order ==
    \E id \in 1..(MaxOrders + 1) :
       /\ lock_guard_passes(mutex_)
       /\ IF can_cancel(id)
          THEN LET c == cancelled(Account, orders[id]) IN
               /\ orders' = [orders EXCEPT ![id] = c.order]
               /\ SetAccount(c.a)
          ELSE UNCHANGED <<orders, available_cash, withdrawable_cash, frozen_cash,
                           today_sell_amount, realized_pnl, positions>>
       /\ last_call' = [op |-> "cancel_order", arg |-> id, ret |-> can_cancel(id)]
       /\ UNCHANGED <<matcher_build, trade_history, current_time, lot_date, lot_locked>>
       /\ UNCHANGED <<order_counter, queue_vars, thread_vars, twin_vars>>

\* update_daily(current_date)
update_daily ==
    /\ lock_guard_passes(mutex_)
    /\ \E d \in SettleDates :
         /\ SetAccount(update_available_volume(Account, d))
         /\ lot_locked' = [s \in Symbols |-> IF lot_date[s] < d THEN 0 ELSE lot_locked[s]]
         /\ last_call' = [op |-> "update_daily", arg |-> d, ret |-> 0]
    /\ UNCHANGED <<matcher_build, orders, trade_history, current_time, lot_date>>
    /\ UNCHANGED <<order_counter, queue_vars, thread_vars, twin_vars>>

Next == submit_order \/ on_tick \/ cancel_order \/ update_daily

Spec == Init /\ [][Next]_vars

----------------------------------------------------------------------------
(* LimitQueue: the per-symbol FIFO queues of orders held at the daily price *)
(* limit, under the public calls of a client that owns the object.  A queue *)
(* entry is the copy of a SimulatedOrder; the queue reads its order_id and  *)
(* symbol only.                                                             *)

MaxQueued == 21

MaxOtherQueued == 1

MaxRemoveLen == 2

QueueEntry(order_id, symbol) == [order_id |-> order_id, symbol |-> symbol]

\* The quotes (last_price, last_close) of the ticks handed to the drains: at
\* the upper limit of a 10% symbol, at its lower limit, and without last_close
QueueTicks ==
    { [last_price |-> 1100, last_close |-> 1000],
      [last_price |-> 900, last_close |-> 1000],
      [last_price |-> 1100, last_close |-> 0] }

\* calculate_limit_up_price(symbol, last_close)
calculate_limit_up_price(symbol, last_close) ==
    round_to_cent(last_close * (100 + get_limit_pct(symbol)), 100)

\* calculate_limit_down_price(symbol, last_close)
calculate_limit_down_price(symbol, last_close) ==
    round_to_cent(last_close * (100 - get_limit_pct(symbol)), 100)

\* is_at_limit_up(symbol, price, last_close): |price - limit_up| < 0.01; the
\* quotes of QueueTicks are at the limit price or more than a cent away
is_at_limit_up(symbol, price, last_close) ==
    LET limit_up == calculate_limit_up_price(symbol, last_close) IN
    IF last_close <= 0 THEN FALSE
    ELSE price - limit_up < 1 /\ limit_up - price < 1

\* is_at_limit_down(symbol, price, last_close)
is_at_limit_down(symbol, price, last_close) ==
    LET limit_down == calculate_limit_down_price(symbol, last_close) IN
    IF last_close <= 0 THEN FALSE
    ELSE price - limit_down < 1 /\ limit_down - price < 1

\* can_fill without the floor of one order
can_fill_unfloored(size) == size \div 10

\* can_fill = std::max(size_t(1), queue.size() / 10)
can_fill(size) == Max(1, size \div 10)

\* The loop that copies queue[0 .. can_fill) to filled_orders
RECURSIVE copy_front(_, _, _, _)
copy_front(queue, i, n, filled_orders) ==
    IF i < n /\ i < Len(queue)
    THEN copy_front(queue, i + 1, n, Append(filled_orders, queue[i + 1]))
    ELSE filled_orders

\* queue.erase(queue.begin(), queue.begin() + n)
erase_front(queue, n) == SubSeq(queue, n + 1, Len(queue))

\* The drain that hands the queue out when the price has opened and leaves it in place
drain_without_erase(queue, still_at_limit) ==
    IF queue = <<>> THEN [filled_orders |-> <<>>, queue |-> queue]
    ELSE IF ~still_at_limit THEN [filled_orders |-> queue, queue |-> queue]
    ELSE [filled_orders |-> copy_front(queue, 0, can_fill(Len(queue)), <<>>),
          queue |-> erase_front(queue, can_fill(Len(queue)))]

\* The body shared by try_fill_limit_up_orders and try_fill_limit_down_orders
\* once still_at_limit is known: the orders returned and the queue left
drain(queue, still_at_limit) ==
    IF queue = <<>> THEN [filled_orders |-> <<>>, queue |-> queue]
    ELSE IF ~still_at_limit THEN [filled_orders |-> queue, queue |-> <<>>]
    ELSE [filled_orders |-> copy_front(queue, 0, can_fill(Len(queue)), <<>>),
          queue |-> erase_front(queue, can_fill(Len(queue)))]

\* std::find_if over one queue: the index of the first entry with order_id, or 0
find_if(queue, order_id) ==
    IF \E i \in DOMAIN queue : queue[i].order_id = order_id
    THEN CHOOSE i \in DOMAIN queue :
            /\ queue[i].order_id = order_id
            /\ \A j \in 1..(i - 1) : queue[j].order_id # order_id
    ELSE 0

\* queue.erase(it)
erase_at(queue, i) == SubSeq(queue, 1, i - 1) \o SubSeq(queue, i + 1, Len(queue))

\* One of the loops of remove_from_queue over a map of queues: the first entry
\* with order_id is erased from the one queue that holds it (an order is
\* queued under its own symbol, so at most one queue of a map holds it)
remove_first(queues, order_id) ==
    [s \in Symbols |->
        IF find_if(queues[s], order_id) # 0
        THEN erase_at(queues[s], find_if(queues[s], order_id))
        ELSE queues[s]]

\* The order id the client gives the next order it parks in `queue`
NextEntryId(queue) == IF queue = <<>> THEN 1 ELSE queue[Len(queue)].order_id + 1

\* How long the client lets the queue of a symbol grow
QueueCap(symbol) == IF symbol = "600000" THEN MaxQueued ELSE MaxOtherQueued

\* add_to_limit_up_queue(order): BUY orders are parked while the symbol is at
\* its upper limit, so none of its SELL orders is parked at the lower limit
add_to_limit_up_queue ==
    /\ \E s \in Symbols :
         /\ limit_down_queues[s] = <<>>
         /\ Len(limit_up_queues[s]) < QueueCap(s)
         /\ NextEntryId(limit_up_queues[s]) <= QueueCap(s)
         /\ limit_up_queues' =
               [limit_up_queues EXCEPT
                   ![s] = Append(@, QueueEntry(NextEntryId(limit_up_queues[s]), s))]
         /\ last_call' = [op |-> "add_to_limit_up_queue", arg |-> s, ret |-> 0]
    /\ UNCHANGED <<exchange_vars, limit_down_queues, thread_vars, twin_vars>>

\* add_to_limit_down_queue(order)
add_to_limit_down_queue ==
    /\ \E s \in Symbols :
         /\ limit_up_queues[s] = <<>>
         /\ Len(limit_down_queues[s]) < QueueCap(s)
         /\ NextEntryId(limit_down_queues[s]) <= QueueCap(s)
         /\ limit_down_queues' =
               [limit_down_queues EXCEPT
                   ![s] = Append(@, QueueEntry(NextEntryId(limit_down_queues[s]), s))]
         /\ last_call' = [op |-> "add_to_limit_down_queue", arg |-> s, ret |-> 0]
    /\ UNCHANGED <<exchange_vars, limit_up_queues, thread_vars, twin_vars>>

\* try_fill_limit_up_orders(symbol, tick)
try_fill_limit_up_orders ==
    /\ \E s \in Symbols, t \in QueueTicks :
         LET d == drain(limit_up_queues[s],
                        is_at_limit_up(s, t.last_price, t.last_close)) IN
         /\ limit_up_queues' = [limit_up_queues EXCEPT ![s] = d.queue]
         /\ last_call' = [op |-> "try_fill_limit_up_orders",
                          arg |-> [symbol |-> s, tick |-> t], ret |-> d.filled_orders]
    /\ UNCHANGED <<exchange_vars, limit_down_queues, thread_vars, twin_vars>>

\* try_fill_limit_down_orders(symbol, tick)
try_fill_limit_down_orders ==
    /\ \E s \in Symbols, t \in QueueTicks :
         LET d == drain(limit_down_queues[s],
                        is_at_limit_down(s, t.last_price, t.last_close)) IN
         /\ limit_down_queues' = [limit_down_queues EXCEPT ![s] = d.queue]
         /\ last_call' = [op |-> "try_fill_limit_down_orders",
                          arg |-> [symbol |-> s, tick |-> t], ret |-> d.filled_orders]
    /\ UNCHANGED <<exchange_vars, limit_up_queues, thread_vars, twin_vars>>

\* The order ids the client asks remove_from_queue for: those it parked, while
\* the queue is short, and one it never parked
RemovableIds ==
    {0} \cup UNION {{limit_up_queues[s][i].order_id : i \in DOMAIN limit_up_queues[s]}
                       \cup {limit_down_queues[s][i].order_id :
                                 i \in DOMAIN limit_down_queues[s]} :
                    s \in {x \in Symbols : Len(limit_up_queues[x]) <= MaxRemoveLen
                                            /\ Len(limit_down_queues[x]) <= MaxRemoveLen}}

\* remove_from_queue(order_id): the limit-up queues are searched first, the
\* limit-down queues only when none of them holds the order
remove_from_queue ==
    /\ \E id \in RemovableIds :
         LET in_up   == \E s \in Symbols : find_if(limit_up_queues[s], id) # 0
             in_down == \E s \in Symbols : find_if(limit_down_queues[s], id) # 0
         IN
         /\ limit_up_queues' =
               IF in_up THEN remove_first(limit_up_queues, id) ELSE limit_up_queues
         /\ limit_down_queues' =
               IF ~in_up /\ in_down THEN remove_first(limit_down_queues, id)
               ELSE limit_down_queues
         /\ last_call' = [op |-> "remove_from_queue", arg |-> id,
                          ret |-> (in_up \/ in_down)]
    /\ UNCHANGED <<exchange_vars, thread_vars, twin_vars>>

\* clear_all_queues()
clear_all_queues ==
    /\ limit_up_queues' = [s \in Symbols |-> <<>>]
    /\ limit_down_queues' = [s \in Symbols |-> <<>>]
    /\ last_call' = [op |-> "clear_all_queues", arg |-> 0, ret |-> 0]
    /\ UNCHANGED <<exchange_vars, thread_vars, twin_vars>>

NextLimitQueue ==
    \/ add_to_limit_up_queue
    \/ add_to_limit_down_queue
    \/ try_fill_limit_up_orders
    \/ try_fill_limit_down_orders
    \/ remove_from_queue
    \/ clear_all_queues

SpecLimitQueue == Init /\ [][NextLimitQueue]_vars

----------------------------------------------------------------------------
(* An exchange and a LimitQueue owned by the same client.  The exchange     *)
(* holds no LimitQueue (simulated_exchange.h has no such member): the       *)
(* client parks the PENDING orders it reads from the exchange.              *)

\* The orders of the client: BUY LIMIT orders of both symbols
DeskOrders ==
    { OrderIn("600000", "BUY", "LIMIT", 1000, 100, 100),
      OrderIn("300750", "BUY", "LIMIT", 1000, 100, 100) }

\* The ticks of the client's feed: a normal quote of each symbol, and a quote
\* of 300750 whose last_close puts the orders' price above the upper limit
DeskTicks ==
    { TickIn("600000", 1, 1000, 999, 1000, 1000000, 1000),
      TickIn("300750", 1, 960, 959, 960, 1000000, 800),
      TickIn("300750", 2, 1000, 999, 1000, 1000000, 1000) }

desk_submit_order == submit_order_of(DeskOrders)

desk_on_tick == on_tick_of(DeskTicks)

\* Order id is held in one of the queues of the maps `up` and `down`
ParkedIn(up, down, id) ==
    \E s \in Symbols :
        \/ \E k \in DOMAIN up[s] : up[s][k].order_id = id
        \/ \E k \in DOMAIN down[s] : down[s][k].order_id = id

Parked(id) == ParkedIn(limit_up_queues, limit_down_queues, id)

\* add_to_limit_up_queue(order) / add_to_limit_down_queue(order) for a PENDING
\* order read from the exchange that the client has not parked yet
park_order ==
    /\ \E id \in DOMAIN orders :
         LET entry == QueueEntry(id, orders[id].symbol) IN
         /\ orders[id].status = "PENDING"
         /\ ~Parked(id)
         /\ IF orders[id].side = "BUY"
            THEN /\ limit_up_queues' =
                       [limit_up_queues EXCEPT ![entry.symbol] = Append(@, entry)]
                 /\ UNCHANGED limit_down_queues
            ELSE /\ limit_down_queues' =
                       [limit_down_queues EXCEPT ![entry.symbol] = Append(@, entry)]
                 /\ UNCHANGED limit_up_queues
         /\ last_call' = [op |-> "park_order", arg |-> id, ret |-> 0]
    /\ UNCHANGED <<exchange_vars, thread_vars, twin_vars>>

NextDesk ==
    \/ desk_submit_order
    \/ desk_on_tick
    \/ cancel_order
    \/ park_order
    \/ try_fill_limit_up_orders
    \/ remove_from_queue

SpecDesk == Init /\ [][NextDesk]_vars

----------------------------------------------------------------------------
(* submit_order called by several strategy threads.  A call is the steps    *)
(* of its code that read or write state shared between the threads: the     *)
(* lock_guard, the increment of order_counter_, the read of order_counter_  *)
(* that formats the id, and the rest of the body up to the return.  The id  *)
(* "ORDER_<ms>_<symbol>_<counter>" is held as its counter, the only part    *)
(* that differs when two calls fall in the same millisecond.                *)

\* The orders the threads submit: one that is accepted, and two that end REJECTED
ThreadOrders ==
    { OrderIn("600000", "BUY", "LIMIT", 1000, 100, 100),
      OrderIn("600000", "BUY", "LIMIT", 1000, 0, 100),
      OrderIn("600000", "SELL", "MARKET", 0, 100, 100) }

\* submit_order: std::lock_guard<std::mutex> lock(mutex_)
submit_order_lock(t) ==
    /\ threads[t].pc = "idle"
    /\ order_counter < MaxOrders
    /\ lock_guard_passes(mutex_)
    /\ mutex_' = t
    /\ \E in \in ThreadOrders :
         threads' = [threads EXCEPT ![t] = [pc |-> "locked", in |-> in]]
    /\ UNCHANGED <<exchange_vars, last_call, queue_vars, twin_vars, tick_run>>

\* generate_order_id: order_counter_++
generate_order_id_increment(t) ==
    /\ threads[t].pc = "locked"
    /\ order_counter' = order_counter + 1
    /\ threads' = [threads EXCEPT ![t].pc = "counted"]
    /\ UNCHANGED <<matcher_build, orders, trade_history, current_time, available_cash,
                   withdrawable_cash, frozen_cash, today_sell_amount, realized_pnl,
                   positions, lot_date, lot_locked>>
    /\ UNCHANGED <<last_call, queue_vars, twin_vars, mutex_, tick_run>>

\* generate_order_id: ss << ... << order_counter_
generate_order_id_format(t) ==
    /\ threads[t].pc = "counted"
    /\ threads' = [threads EXCEPT ![t] = [pc |-> "named", in |-> threads[t].in,
                                          order_id |-> order_counter]]
    /\ UNCHANGED <<exchange_vars, last_call, queue_vars, twin_vars, mutex_, tick_run>>

\* orders_[order.order_id] = order
store_order(registry, order_id, order) ==
    [i \in (DOMAIN registry) \cup {order_id} |->
        IF i = order_id THEN order ELSE registry[i]]

\* submit_order: validation, freeze, orders_[order.order_id] = order, return
submit_order_store(t) ==
    /\ threads[t].pc = "named"
    /\ LET r == submitted(threads[t].in, Account, current_date_of(current_time)) IN
         /\ orders' = store_order(orders, threads[t].order_id, r.order)
         /\ SetAccount(r.a)
    /\ last_call' = [op |-> "submit_order", arg |-> t, ret |-> threads[t].order_id]
    /\ threads' = [threads EXCEPT ![t] = Idle]
    /\ mutex_' = "free"
    /\ UNCHANGED <<matcher_build, trade_history, current_time, lot_date, lot_locked,
                   order_counter, queue_vars, twin_vars, tick_run>>

NextThreads ==
    \E t \in ThreadIds :
        \/ submit_order_lock(t)
        \/ generate_order_id_increment(t)
        \/ generate_order_id_format(t)
        \/ submit_order_store(t)

SpecThreads == Init /\ [][NextThreads]_vars

----------------------------------------------------------------------------
(* on_tick beside a reader thread.  on_tick holds the exchange's mutex_     *)
(* from entry to return; each call it makes on account_ takes and releases  *)
(* the account's own mutex.  The getters of the exchange forward to the     *)
(* account without taking the exchange's mutex_, so a getter can run        *)
(* between any two ledger calls of an on_tick.                              *)

\* The ledger after each call process_fill makes on account_, BUY branch
process_fill_buy_calls(X, id, m, current_date) ==
    LET order       == X.orders[id]
        commission  == calculate_commission(order.side, m.filled_price, m.filled_volume)
        actual_cost == m.filled_volume * m.filled_price + commission
        a1 == unfreeze_cash(X.a, freeze_amount_n(order), freeze_amount_d(order))
        f  == freeze_cash(a1, actual_cost, 1)
        a2 == unfreeze_cash(f.a, actual_cost, 1)
        p  == add_position(a2, order.symbol, m.filled_volume, m.filled_price, current_date)
    IN
    IF ~f.ok THEN <<a1, f.a, process_reject([X EXCEPT !.a = a1], id).a>>
    ELSE <<a1, f.a, a2, p.a>>

\* The ledger after each call process_fill makes on account_, SELL branch
process_fill_sell_calls(X, id, m) ==
    LET order      == X.orders[id]
        commission == calculate_commission(order.side, m.filled_price, m.filled_volume)
        r  == reduce_position(X.a, order.symbol, m.filled_volume, m.filled_price)
        f  == freeze_cash(r.a, commission, 1)
        a2 == unfreeze_cash(f.a, commission, 1)
        a3 == unfreeze_position(a2, order.symbol, m.filled_volume)
    IN
    IF ~r.ok THEN <<r.a, process_reject(X, id).a>>
    ELSE <<r.a, f.a, a2, a3>>

\* The ledger after each call the loop body of on_tick makes for one order
match_one_calls(X, build, id, tick, current_date, u) ==
    LET m == try_match_order(build, X.orders[id], tick, TRUE, u) IN
    IF m.success
    THEN (IF X.orders[id].side = "BUY" THEN process_fill_buy_calls(X, id, m, current_date)
          ELSE process_fill_sell_calls(X, id, m))
    ELSE IF ~Mentions(m.reject_reason, "limit") /\ ~Mentions(m.reject_reason, "price")
         THEN <<process_reject(X, id).a>>
    ELSE <<>>

\* The ledger after each call the loop of on_tick makes
RECURSIVE match_all_calls(_, _, _, _, _, _)
match_all_calls(X, build, todo, tick, current_date, us) ==
    IF todo = <<>> THEN <<>>
    ELSE match_one_calls(X, build, Head(todo), tick, current_date, us[Head(todo)])
         \o match_all_calls(
                match_one(X, build, Head(todo), tick, current_date, us[Head(todo)]),
                build, Tail(todo), tick, current_date, us)

\* The orders of the strategy thread
ReaderOrders ==
    { OrderIn("600000", "BUY", "LIMIT", 1000, 100, 100),
      OrderIn("600000", "SELL", "MARKET", 0, 100, 100) }

\* The ticks of the feed thread
ReaderTicks ==
    { TickIn("600000", 1, 1000, 999, 1000, 1000000, 1000),
      TickIn("600000", 2, 1010, 1009, 1010, 1000000, 1000) }

strategy_submit_order == submit_order_of(ReaderOrders)

\* on_tick: lock_guard, current_time_ = tick.timestamp; the ledger calls the
\* tick will make are fixed by the tick, the registry and the draws of the matcher
on_tick_enter ==
    /\ lock_guard_passes(mutex_)
    /\ \E shape \in ReaderTicks :
         LET ts   == shape.timestamp
             date == current_date_of(ts)
             X0   == [Exchange EXCEPT
                         !.a = update_position_price(Account, shape.symbol, shape.last_price)]
         IN /\ ts >= current_time
            /\ \E todo \in Iterations(PendingOf(shape.symbol)) :
                 \E us \in [PendingOf(shape.symbol) -> UDraws] :
                    /\ current_time' = ts
                    /\ tick_run' =
                          [calls |-> <<X0.a>> \o match_all_calls(X0, matcher_build, todo,
                                                                 shape, date, us),
                           X     |-> match_all(X0, matcher_build, todo, shape, date, us),
                           pre   |-> Account,
                           tick  |-> shape]
    /\ mutex_' = "on_tick"
    /\ UNCHANGED <<matcher_build, orders, trade_history, available_cash, withdrawable_cash,
                   frozen_cash, today_sell_amount, realized_pnl, positions, lot_date,
                   lot_locked, order_counter, last_call, queue_vars, twin_vars, threads>>

\* The next call of the running on_tick on account_
on_tick_ledger_call ==
    /\ tick_run.calls # <<>>
    /\ SetAccount(Head(tick_run.calls))
    /\ tick_run' = [tick_run EXCEPT !.calls = Tail(@)]
    /\ UNCHANGED <<matcher_build, orders, trade_history, current_time, lot_date,
                   lot_locked, order_counter, last_call, queue_vars, twin_vars, mutex_, threads>>

\* on_tick returns: the orders and the trade history written under mutex_
\* become readable and the mutex is released
on_tick_return ==
    /\ tick_run # NoTick
    /\ tick_run.calls = <<>>
    /\ SetExchange(tick_run.X)
    /\ last_call' = [op |-> "on_tick", arg |-> tick_run.tick, ret |-> 0]
    /\ tick_run' = NoTick
    /\ mutex_' = "free"
    /\ UNCHANGED <<matcher_build, current_time, order_counter, queue_vars, twin_vars, threads>>

\* The getters of the exchange that forward to account_
Getters ==
    {"get_available_cash", "get_frozen_cash", "get_total_assets", "get_position",
     "get_all_positions"}

\* What getter g returns on ledger a (get_position for symbol s)
GetterValue(g, s, a) ==
    CASE g = "get_available_cash" -> a.available_cash
      [] g = "get_frozen_cash" -> a.frozen_cash
      [] g = "get_total_assets" -> get_total_assets(a)
      [] g = "get_position" -> a.positions[s]
      [] g = "get_all_positions" -> {a.positions[x] : x \in Symbols} \ {NoPosition}

\* A getter called by the reader thread
reader_get ==
    /\ \E g \in Getters, s \in Symbols :
         last_call' = [op |-> g, arg |-> s, ret |-> GetterValue(g, s, Account)]
    /\ UNCHANGED <<exchange_vars, queue_vars, thread_vars, twin_vars>>

NextReaders ==
    \/ strategy_submit_order
    \/ cancel_order
    \/ on_tick_enter
    \/ on_tick_ledger_call
    \/ on_tick_return
    \/ reader_get

SpecReaders == Init /\ [][NextReaders]_vars

----------------------------------------------------------------------------
(* Two exchanges constructed with the same initial capital and driven by the *)
(* same calls with the same arguments.  The first is the exchange of the     *)
(* variables above, the second is `twin`; each has its own OrderMatcher,     *)
(* whose generator is seeded from the clock at construction, and its own     *)
(* orders_ hash map, whose keys hold the wall-clock time of the submission.  *)

TwinOrders ==
    {OrderIn("600000", "BUY", "LIMIT", 1000, 100, 1000),
     OrderIn("600000", "BUY", "LIMIT", 1000, 100, 100)}

TwinTicks ==
    {TickIn("600000", 1, 1000, 999, 1000, 1000000, 1000),
     TickIn("600000", 2, 1000, 999, 1000, 1000000, 1000)}

\* The ids on_tick matches in the registry `os`
PendingIn(os, symbol) ==
    {i \in DOMAIN os : os[i].status = "PENDING" /\ os[i].symbol = symbol}

\* submit_order(order) on both exchanges
both_submit_order ==
    /\ lock_guard_passes(mutex_)
    /\ Len(orders) < MaxOrders
    /\ \E in \in TwinOrders :
         LET r1 == submitted(in, Account, current_date_of(current_time))
             r2 == submitted(in, twin.a, current_date_of(current_time))
         IN
         /\ orders' = Append(orders, r1.order)
         /\ SetAccount(r1.a)
         /\ twin' = [twin EXCEPT !.orders = Append(@, r2.order), !.a = r2.a]
         /\ last_call' = [op |-> "submit_order", arg |-> 0, ret |-> Len(orders) + 1]
    /\ order_counter' = order_counter + 1
    /\ UNCHANGED <<matcher_build, trade_history, current_time, lot_date, lot_locked>>
    /\ UNCHANGED <<queue_vars, thread_vars, lock_vars>>

\* on_tick(tick) on both exchanges: each visits its own hash map in its own
\* order and draws from its own generator
both_on_tick ==
    /\ lock_guard_passes(mutex_)
    /\ \E shape \in TwinTicks :
         LET ts   == shape.timestamp
             date == current_date_of(ts)
             X0   == [Exchange EXCEPT
                         !.a = update_position_price(Account, shape.symbol, shape.last_price)]
             Y0   == [twin EXCEPT
                         !.a = update_position_price(twin.a, shape.symbol, shape.last_price)]
             P1   == PendingOf(shape.symbol)
             P2   == PendingIn(twin.orders, shape.symbol)
         IN /\ ts >= current_time
            /\ \E todo1 \in Iterations(P1), todo2 \in Iterations(P2) :
                 \E us1 \in [P1 -> UDraws], us2 \in [P2 -> UDraws] :
                    /\ current_time' = ts
                    /\ SetExchange(match_all(X0, matcher_build, todo1, shape, date, us1))
                    /\ twin' = match_all(Y0, matcher_build, todo2, shape, date, us2)
                    /\ last_call' = [op |-> "on_tick", arg |-> shape, ret |-> 0]
    /\ UNCHANGED <<matcher_build, order_counter, queue_vars, thread_vars, lock_vars>>

\* cancel_order(order_id) on both exchanges
both_cancel_order ==
    \E id \in 1..(MaxOrders + 1) :
       /\ lock_guard_passes(mutex_)
       /\ IF can_cancel(id)
          THEN LET c == cancelled(Account, orders[id]) IN
               /\ orders' = [orders EXCEPT ![id] = c.order]
               /\ SetAccount(c.a)
          ELSE UNCHANGED <<orders, available_cash, withdrawable_cash, frozen_cash,
                           today_sell_amount, realized_pnl, positions>>
       /\ IF id \in DOMAIN twin.orders /\ twin.orders[id].status = "PENDING"
          THEN LET c == cancelled(twin.a, twin.orders[id]) IN
               twin' = [twin EXCEPT !.orders[id] = c.order, !.a = c.a]
          ELSE UNCHANGED twin
       /\ last_call' = [op |-> "cancel_order", arg |-> id, ret |-> can_cancel(id)]
       /\ UNCHANGED <<matcher_build, trade_history, current_time, lot_date, lot_locked>>
       /\ UNCHANGED <<order_counter, queue_vars, thread_vars, lock_vars>>

\* update_daily(current_date) on both exchanges
both_update_daily ==
    /\ lock_guard_passes(mutex_)
    /\ \E d \in SettleDates :
         /\ SetAccount(update_available_volume(Account, d))
         /\ lot_locked' = [s \in Symbols |-> IF lot_date[s] < d THEN 0 ELSE lot_locked[s]]
         /\ twin' = [twin EXCEPT
                        !.a = update_available_volume(twin.a, d),
                        !.lot_locked = [s \in Symbols |->
                                           IF twin.lot_date[s] < d THEN 0
                                           ELSE twin.lot_locked[s]]]
         /\ last_call' = [op |-> "update_daily", arg |-> d, ret |-> 0]
    /\ UNCHANGED <<matcher_build, orders, trade_history, current_time, lot_date>>
    /\ UNCHANGED <<order_counter, queue_vars, thread_vars, lock_vars>>

NextTwin == both_submit_order \/ both_on_tick \/ both_cancel_order \/ both_update_daily

SpecTwin == Init /\ [][NextTwin]_vars

----------------------------------------------------------------------------
(* A strategy that trades with LIMIT orders on both sides, under quotes that *)
(* meet the limit of one side and not of the other.                          *)

LimitOrders ==
    {OrderIn("600000", "BUY", "LIMIT", 1000, 100, 100),
     OrderIn("600000", "SELL", "LIMIT", 1005, 100, 100),
     OrderIn("300750", "BUY", "LIMIT", 1000, 100, 100)}

LimitTicks ==
    {TickIn("600000", 1, 1000, 999, 1000, 1000000, 1000),
     TickIn("600000", 2, 1002, 1001, 1002, 1000000, 1000),
     TickIn("600000", 2, 1010, 1009, 1010, 0, 1000),
     TickIn("600000", 1, 1000, 999, 1000, 500, 1000),
     TickIn("600000", 2, 1010, 1009, 1010, 500, 1000),
     TickIn("300750", 2, 1010, 1009, 1010, 1000000, 1000)}

limit_submit_order == submit_order_of(LimitOrders)

limit_on_tick == on_tick_of(LimitTicks)

NextLimitOrders == limit_submit_order \/ limit_on_tick \/ cancel_order \/ update_daily

SpecLimitOrders == Init /\ [][NextLimitOrders]_vars

----------------------------------------------------------------------------
(* The mutexes.  Each client thread makes calls on the exchange, on the      *)
(* ledger and on a limit queue; a call is the sequence of lock and unlock    *)
(* operations its code performs on the three std::mutex objects.  A          *)
(* std::mutex is not recursive: a thread that locks one it holds never       *)
(* gets it.  The threads make at most MaxCalls calls in all.                 *)

MaxCalls == 3

Mutexes == {"exchange", "account", "queue"}

Lock(m) == [op |-> "lock", m |-> m]

Unlock(m) == [op |-> "unlock", m |-> m]

\* std::lock_guard<std::mutex> lock(mutex_) around the statements `body`
lock_guard(m, body) == <<Lock(m)>> \o body \o <<Unlock(m)>>

\* A method of SimulationAccount: lock_guard on the account's mutex, no call
\* of another locking method
account_call == lock_guard("account", <<>>)

\* A method of LimitQueue: lock_guard on the queue's mutex; the helpers it
\* calls (is_at_limit_up, calculate_limit_up_price, get_limit_pct) take no lock
queue_call == lock_guard("queue", <<>>)

\* A get_total_pnl that takes the account's mutex before it calls
\* get_unrealized_pnl
get_total_pnl_relocking == lock_guard("account", account_call)

\* SimulationAccount::get_total_pnl: no lock_guard of its own, one call of
\* get_unrealized_pnl
get_total_pnl == account_call

LockCalls ==
    {"submit_order BUY", "submit_order SELL", "on_tick", "cancel_order", "update_daily",
     "get_order", "get_available_cash", "get_total_pnl", "remove_from_queue"}

\* The lock operations of a call, in program order
lock_sequence(call) ==
    CASE call = "submit_order BUY" ->       \* freeze_cash
            lock_guard("exchange", account_call)
      [] call = "submit_order SELL" ->      \* can_sell, freeze_position
            lock_guard("exchange", account_call \o account_call)
      [] call = "on_tick" ->                \* update_position_price, then a BUY fill:
                                            \* unfreeze_cash, freeze_cash, unfreeze_cash,
                                            \* add_position
            lock_guard("exchange", account_call \o account_call \o account_call
                                   \o account_call \o account_call)
      [] call = "cancel_order" ->           \* unfreeze_cash or unfreeze_position
            lock_guard("exchange", account_call)
      [] call = "update_daily" ->           \* update_available_volume
            lock_guard("exchange", account_call)
      [] call = "get_order" -> lock_guard("exchange", <<>>)
      [] call = "get_available_cash" -> account_call
      [] call = "get_total_pnl" -> get_total_pnl
      [] call = "remove_from_queue" -> queue_call

\* The thread that holds mutex m, or "free"
holder(m) ==
    CASE m = "exchange" -> mutex_
      [] m = "account" -> account_mutex_
      [] m = "queue" -> queue_mutex_

\* Mutex m passes to `owner`
SetHolder(m, owner) ==
    /\ mutex_' = IF m = "exchange" THEN owner ELSE mutex_
    /\ account_mutex_' = IF m = "account" THEN owner ELSE account_mutex_
    /\ queue_mutex_' = IF m = "queue" THEN owner ELSE queue_mutex_

Running(t) == threads[t] # Idle

\* Thread t begins a call
thread_call(t) ==
    /\ ~Running(t)
    /\ calls_made < MaxCalls
    /\ \E call \in LockCalls :
         threads' = [threads EXCEPT ![t] = [pc |-> "running", call |-> call,
                                             todo |-> lock_sequence(call)]]
    /\ calls_made' = calls_made + 1
    /\ UNCHANGED <<exchange_vars, last_call, queue_vars, mutex_, tick_run, twin,
                   account_mutex_, queue_mutex_>>

\* The constructor of a lock_guard: it returns once the mutex is free
thread_lock(t) ==
    /\ Running(t)
    /\ threads[t].todo # <<>>
    /\ Head(threads[t].todo).op = "lock"
    /\ holder(Head(threads[t].todo).m) = "free"
    /\ SetHolder(Head(threads[t].todo).m, t)
    /\ threads' = [threads EXCEPT ![t].todo = Tail(@)]
    /\ UNCHANGED <<exchange_vars, last_call, queue_vars, tick_run, twin, calls_made>>

\* The destructor of a lock_guard
thread_unlock(t) ==
    /\ Running(t)
    /\ threads[t].todo # <<>>
    /\ Head(threads[t].todo).op = "unlock"
    /\ SetHolder(Head(threads[t].todo).m, "free")
    /\ threads' = [threads EXCEPT ![t].todo = Tail(@)]
    /\ UNCHANGED <<exchange_vars, last_call, queue_vars, tick_run, twin, calls_made>>

\* The call returns
thread_return(t) ==
    /\ Running(t)
    /\ threads[t].todo = <<>>
    /\ last_call' = [op |-> threads[t].call, arg |-> t, ret |-> 0]
    /\ threads' = [threads EXCEPT ![t] = Idle]
    /\ UNCHANGED <<exchange_vars, queue_vars, mutex_, tick_run, twin_vars>>

\* A step thread t takes by itself once it is inside a call
thread_step(t) == thread_lock(t) \/ thread_unlock(t) \/ thread_return(t)

NextLocks ==
    \E t \in ThreadIds :
        \/ thread_call(t)
        \/ thread_lock(t)
        \/ thread_unlock(t)
        \/ thread_return(t)

\* The scheduler runs every thread that can take a step
SpecLocks ==
    Init /\ [][NextLocks]_vars /\ \A t \in ThreadIds : WF_vars(thread_step(t))

----------------------------------------------------------------------------
(* The LimitQueue under a client that hands it any of its orders at any     *)
(* time, also one that is queued already: add_to_limit_up_queue and         *)
(* add_to_limit_down_queue take whatever order they are given.              *)

MaxRequeued == 2

RequeueOrders ==
    {QueueEntry(1, "600000"), QueueEntry(2, "600000"), QueueEntry(3, "300750")}

requeue_to_limit_up_queue ==
    /\ \E order \in RequeueOrders :
         /\ Len(limit_up_queues[order.symbol]) < MaxRequeued
         /\ limit_up_queues' = [limit_up_queues EXCEPT ![order.symbol] = Append(@, order)]
         /\ last_call' = [op |-> "add_to_limit_up_queue", arg |-> order.order_id, ret |-> 0]
    /\ UNCHANGED <<exchange_vars, limit_down_queues, thread_vars, twin_vars>>

requeue_to_limit_down_queue ==
    /\ \E order \in RequeueOrders :
         /\ Len(limit_down_queues[order.symbol]) < MaxRequeued
         /\ limit_down_queues' = [limit_down_queues EXCEPT ![order.symbol] = Append(@, order)]
         /\ last_call' = [op |-> "add_to_limit_down_queue", arg |-> order.order_id, ret |-> 0]
    /\ UNCHANGED <<exchange_vars, limit_up_queues, thread_vars, twin_vars>>

NextRequeue ==
    \/ requeue_to_limit_up_queue
    \/ requeue_to_limit_down_queue
    \/ try_fill_limit_up_orders
    \/ try_fill_limit_down_orders
    \/ remove_from_queue

SpecRequeue == Init /\ [][NextRequeue]_vars

----------------------------------------------------------------------------
(* The SimulationAccount called on its own: lots of 100 shares at 10.00 are  *)
(* added on the dates of LedgerDates, shares are frozen, the available       *)
(* volume is refreshed and can_sell is asked for any of the dates.           *)

MaxHeld == 200

LedgerDates == {1, 2, 3}

account_add_position ==
    \E s \in Symbols, d \in LedgerDates :
        /\ positions[s] = NoPosition \/ positions[s].volume < MaxHeld
        /\ SetAccount(add_position(Account, s, 100, 1000, d).a)
        /\ last_call' = [op |-> "add_position", arg |-> [symbol |-> s, buy_date |-> d],
                         ret |-> add_position(Account, s, 100, 1000, d).ok]
        /\ UNCHANGED <<matcher_build, orders, trade_history, current_time, lot_date,
                       lot_locked, order_counter, queue_vars, thread_vars, twin_vars>>

account_freeze_position ==
    \E s \in Symbols :
        /\ SetAccount(freeze_position(Account, s, 100).a)
        /\ last_call' = [op |-> "freeze_position", arg |-> [symbol |-> s],
                         ret |-> freeze_position(Account, s, 100).ok]
        /\ UNCHANGED <<matcher_build, orders, trade_history, current_time, lot_date,
                       lot_locked, order_counter, queue_vars, thread_vars, twin_vars>>

account_update_available_volume ==
    \E d \in LedgerDates :
        /\ SetAccount(update_available_volume(Account, d))
        /\ last_call' = [op |-> "update_available_volume", arg |-> [current_date |-> d],
                         ret |-> 0]
        /\ UNCHANGED <<matcher_build, orders, trade_history, current_time, lot_date,
                       lot_locked, order_counter, queue_vars, thread_vars, twin_vars>>

call_can_sell ==
    \E s \in Symbols, volume \in {100, 200}, d \in LedgerDates :
        /\ last_call' = [op  |-> "can_sell",
                         arg |-> [symbol |-> s, volume |-> volume, current_date |-> d],
                         ret |-> can_sell(Account, s, volume, d)]
        /\ UNCHANGED <<exchange_vars, queue_vars, thread_vars, twin_vars>>

NextLedger ==
    \/ account_add_position
    \/ account_freeze_position
    \/ account_update_available_volume
    \/ call_can_sell

SpecLedger == Init /\ [][NextLedger]_vars

----------------------------------------------------------------------------
(* The OrderMatcher called on its own, as its unit tests call it: every      *)
(* step is one call of a public method with arguments drawn from the menus   *)
(* below; last_call records the arguments and the value returned.            *)

\* Orders handed to try_match_order: both sides and types, a valid and a zero
\* price, and volumes around the limits of the volume validation
MatcherOrders ==
    {OrderIn("600000", side, type, price, volume, 100) :
        side \in {"BUY", "SELL"}, type \in {"MARKET", "LIMIT"}, price \in {0, 1000},
        volume \in {-100, 0, 100, 150, 1000000, 1000100}}
    \cup {OrderIn("600000", "BUY", "LIMIT", 1100, 100, 1000),
          OrderIn("600000", "SELL", "LIMIT", 900, 100, 1000)}

\* Ticks handed to try_match_order: with and without a last price, quotes and
\* last_close; volume 0 switches the liquidity check off
MatcherTicks ==
    {TickIn("600000", 1, last, quote[1], quote[2], 0, lc) :
        last \in {0, 1000}, quote \in {<<999, 1000>>, <<0, 0>>}, lc \in {0, 1000}}

\* Prices and closing prices handed to check_limit_price
LimitPrices == {-1000, 0, 900, 1000, 1100, 1101, 1200}
LastCloses == {-1000, 0, 1000}

call_try_match_order ==
    \E order \in MatcherOrders, tick \in MatcherTicks,
       check_price_limit \in BOOLEAN, u \in UDraws :
        /\ last_call' = [op  |-> "try_match_order",
                         arg |-> [order |-> order, tick |-> tick,
                                  check_price_limit |-> check_price_limit],
                         ret |-> try_match_order(matcher_build, order, tick,
                                                 check_price_limit, u)]
        /\ UNCHANGED <<exchange_vars, queue_vars, thread_vars, twin_vars>>

call_check_limit_price ==
    \E symbol \in Symbols, price \in LimitPrices, last_close \in LastCloses :
        /\ last_call' = [op  |-> "check_limit_price",
                         arg |-> [symbol |-> symbol, price |-> price,
                                  last_close |-> last_close],
                         ret |-> check_limit_price(symbol, price, last_close)]
        /\ UNCHANGED <<exchange_vars, queue_vars, thread_vars, twin_vars>>

NextMatcher == call_try_match_order \/ call_check_limit_price

SpecMatcher == Init /\ [][NextMatcher]_vars

----------------------------------------------------------------------------
(* Vocabulary of the properties *)

Terminal == {"FILLED", "CANCELLED", "REJECTED"}

\* The cash the exchange reserved for a PENDING BUY order at submission
Reserved(order) == round_to_cent(freeze_amount_n(order), freeze_amount_d(order))

\* Order i is filled by the step
FillsNow(i) == orders[i].status = "PENDING" /\ orders'[i].status = "FILLED"

\* The step fills order i and leaves every other order as it was
OnlyFill(i) ==
    /\ FillsNow(i)
    /\ Len(trade_history') = Len(trade_history) + 1
    /\ \A j \in DOMAIN orders : j # i => orders'[j] = orders[j]

LastTrade == trade_history[Len(trade_history)]

TotalAssets == get_total_assets(Account)

\* Shares of symbol s that were held before the lots bought on lot_date[s]
HeldBeforeLot(s) == Max(0, positions[s].volume - lot_locked[s])

----------------------------------------------------------------------------
(* C1: a BUY fill releases the order's whole reservation from frozen_cash   *)
(* and lowers available_cash + frozen_cash by exactly                       *)
(* filled_price * filled_volume + commission.                               *)
C1_BuyFillDebitsCost ==
    [][\A i \in DOMAIN orders :
          (OnlyFill(i) /\ orders[i].side = "BUY") =>
              /\ frozen_cash' = frozen_cash - Reserved(orders[i])
              /\ available_cash' + frozen_cash' =
                    available_cash + frozen_cash
                    - (LastTrade'.price * LastTrade'.volume + LastTrade'.commission)]_vars

(* C2: once a BUY of s has filled on date d, a SELL of s submitted on date  *)
(* d for more shares than were held before that fill is REJECTED, until a   *)
(* settlement with a later date.                                            *)
C2_SameDaySellRejected ==
    [][(/\ Len(orders') = Len(orders) + 1
        /\ orders'[Len(orders')].side = "SELL"
        /\ orders'[Len(orders')].volume > 0
        /\ lot_locked[orders'[Len(orders')].symbol] > 0
        /\ lot_date[orders'[Len(orders')].symbol] = current_date_of(current_time)
        /\ orders'[Len(orders')].volume > HeldBeforeLot(orders'[Len(orders')].symbol))
       => orders'[Len(orders')].status = "REJECTED"]_vars

(* C3: an order whose status is FILLED, CANCELLED or REJECTED is never      *)
(* changed again by any call.                                               *)
C3_TerminalAbsorbing ==
    [][\A i \in DOMAIN orders :
          orders[i].status \in Terminal =>
              (i \in DOMAIN orders' /\ orders'[i] = orders[i])]_vars

\* A FILLED order on which a later cancel_order was attempted
C3_Witness ==
    /\ last_call.op = "cancel_order"
    /\ last_call.arg \in DOMAIN orders
    /\ orders[last_call.arg].status = "FILLED"

(* C4: cancel_order(id) returns true exactly when id is a PENDING order of  *)
(* the registry, and when it returns false the registry, the cash buckets,  *)
(* the positions and the trade history are unchanged.                       *)
C4_CancelContract ==
    [][last_call'.op = "cancel_order" =>
          /\ last_call'.ret =
                (/\ last_call'.arg \in DOMAIN orders
                 /\ orders[last_call'.arg].status = "PENDING")
          /\ last_call'.ret = FALSE =>
                UNCHANGED <<orders, trade_history, available_cash, withdrawable_cash,
                            frozen_cash, today_sell_amount, realized_pnl, positions>>]_vars

\* A second cancel_order of an order that is already CANCELLED returned false
C4_Witness ==
    /\ last_call.op = "cancel_order"
    /\ last_call.ret = FALSE
    /\ last_call.arg \in DOMAIN orders
    /\ orders[last_call.arg].status = "CANCELLED"

(* C5: every position has 0 <= frozen_volume <= volume and                  *)
(* 0 <= available_volume <= volume - frozen_volume after every call.        *)
C5_PositionBounds ==
    \A s \in Symbols :
        positions[s] # NoPosition =>
            /\ 0 <= positions[s].frozen_volume
            /\ positions[s].frozen_volume <= positions[s].volume
            /\ 0 <= positions[s].available_volume
            /\ positions[s].available_volume
                  <= positions[s].volume - positions[s].frozen_volume

(* C6: a SELL fill leaves withdrawable_cash unchanged and raises            *)
(* available_cash by the proceeds filled_price * filled_volume; no call but *)
(* the daily settlement changes withdrawable_cash.                          *)
C6_SellFillCash ==
    [][/\ \A i \in DOMAIN orders :
             (OnlyFill(i) /\ orders[i].side = "SELL") =>
                 /\ withdrawable_cash' = withdrawable_cash
                 /\ available_cash' =
                       available_cash + LastTrade'.price * LastTrade'.volume
       /\ withdrawable_cash' # withdrawable_cash => last_call'.op = "update_daily"]_vars

(* C7: right after update_daily(d): withdrawable_cash = available_cash,     *)
(* frozen_cash as before, today_sell_amount = 0, every position bought      *)
(* before d has available_volume = volume - frozen_volume and the other     *)
(* positions are untouched.                                                 *)
C7_SettlementResult ==
    [][last_call'.op = "update_daily" =>
          /\ withdrawable_cash' = available_cash'
          /\ frozen_cash' = frozen_cash
          /\ today_sell_amount' = 0
          /\ \A s \in Symbols :
                IF positions[s] # NoPosition /\ positions[s].buy_date < last_call'.arg
                THEN positions'[s].available_volume =
                        positions'[s].volume - positions'[s].frozen_volume
                ELSE positions'[s] = positions[s]]_vars

(* C8: withdrawable_cash <= available_cash right after every daily          *)
(* settlement and right after every SELL fill.                              *)
C8_WithdrawableBelowAvailable ==
    [][(\/ last_call'.op = "update_daily"
        \/ \E i \in DOMAIN orders : FillsNow(i) /\ orders[i].side = "SELL")
       => withdrawable_cash' <= available_cash']_vars

(* C9: submit_order, cancel_order and an on_tick without a fill that leaves *)
(* the price of every held symbol as it was do not change total_assets.     *)
C9_TotalAssetsFrame ==
    [][(/\ last_call'.op \in {"submit_order", "cancel_order", "on_tick"}
        /\ trade_history' = trade_history
        /\ \A s \in Symbols :
              positions[s] # NoPosition =>
                  positions'[s].current_price = positions[s].current_price)
       => TotalAssets' = TotalAssets]_vars

\* A position is held while an on_tick has rejected a BUY order that held a
\* reservation (its volume passed submit_order)
C9_Witness ==
    /\ last_call.op = "on_tick"
    /\ \E s \in Symbols : positions[s] # NoPosition
    /\ \E i \in DOMAIN orders :
          /\ orders[i].side = "BUY"
          /\ orders[i].type = "LIMIT"
          /\ orders[i].volume > 0
          /\ orders[i].status = "REJECTED"
          /\ Reserved(orders[i]) <= InitialCapital

(* C10: every FILLED BUY order of the registry has a filled_volume that is  *)
(* a multiple of 100.                                                       *)
C10_FilledBuyLots ==
    \A i \in DOMAIN orders :
        (orders[i].side = "BUY" /\ orders[i].status = "FILLED")
            => orders[i].filled_volume % 100 = 0

\* The order a submit_order step has just stored
NewOrder == orders'[Len(orders')]

\* The step is a submit_order call
Submits == last_call'.op = "submit_order" /\ Len(orders') = Len(orders) + 1

(* C11: a BUY whose volume is not a multiple of 100 is REJECTED when        *)
(* submit_order returns and no cash is frozen for it; a SELL of an odd lot  *)
(* against a position that can be sold is accepted as PENDING.              *)
C11_OddLotAtSubmit ==
    [][Submits =>
          /\ (NewOrder.side = "BUY" /\ NewOrder.volume % 100 # 0) =>
                 (NewOrder.status = "REJECTED" /\ frozen_cash' = frozen_cash)
          /\ (/\ NewOrder.side = "SELL"
              /\ NewOrder.type = "MARKET"
              /\ NewOrder.volume % 100 # 0
              /\ can_sell(Account, NewOrder.symbol, NewOrder.volume,
                          current_date_of(current_time))) =>
                 NewOrder.status = "PENDING"]_vars

\* The cost of a MARKET BUY of `volume` shares filled at the ask of tick t
TrueCost(volume, t) ==
    volume * t.ask_price + calculate_commission("BUY", t.ask_price, volume)

(* C12: a MARKET BUY whose cost at the ask of a coming tick of its symbol,  *)
(* fees included, does not exceed available_cash is accepted by             *)
(* submit_order as PENDING.                                                 *)
C12_MarketBuyAccepted ==
    [][(/\ Submits
        /\ NewOrder.side = "BUY"
        /\ NewOrder.type = "MARKET"
        /\ NewOrder.volume > 0
        /\ NewOrder.volume % 100 = 0
        /\ \A t \in Ticks :
              (t.symbol = NewOrder.symbol /\ t.timestamp >= current_time /\ t.volume > 0)
                  => TrueCost(NewOrder.volume, t) <= available_cash)
       => NewOrder.status = "PENDING"]_vars

(* C18: the TradeRecords one on_tick appends to the trade history are in    *)
(* the order in which their orders were submitted.                          *)
C18_TradesInSubmissionOrder ==
    [][last_call'.op = "on_tick" =>
          \A j, k \in (Len(trade_history) + 1)..Len(trade_history') :
              j < k => trade_history'[j].order_id < trade_history'[k].order_id]_vars

\* The step is a drain of the limit-up (limit-down) queue of a symbol
DrainsUp == last_call'.op = "try_fill_limit_up_orders"

DrainsDown == last_call'.op = "try_fill_limit_down_orders"

\* The tick of the drain finds the symbol still at the limit of the queue
StillAtLimitUp(c) ==
    is_at_limit_up(c.arg.symbol, c.arg.tick.last_price, c.arg.tick.last_close)

StillAtLimitDown(c) ==
    is_at_limit_down(c.arg.symbol, c.arg.tick.last_price, c.arg.tick.last_close)

\* The entries of q are in the order in which the client parked them
InArrivalOrder(q) == \A i, j \in DOMAIN q : i < j => q[i].order_id < q[j].order_id

\* The queues of the symbols other than s are as they were
OthersUnchanged(s) ==
    /\ \A x \in Symbols \ {s} : /\ limit_up_queues'[x] = limit_up_queues[x]
                                  /\ limit_down_queues'[x] = limit_down_queues[x]

(* C16: when the price has opened, try_fill_limit_up_orders returns every   *)
(* order queued for the symbol, in the order they were enqueued, and leaves *)
(* that queue empty; no other queue changes.  The same for                  *)
(* try_fill_limit_down_orders.                                              *)
C16_OpenedDrainIsFifo ==
    [][/\ (DrainsUp /\ ~StillAtLimitUp(last_call')) =>
             /\ last_call'.ret = limit_up_queues[last_call'.arg.symbol]
             /\ InArrivalOrder(last_call'.ret)
             /\ limit_up_queues'[last_call'.arg.symbol] = <<>>
             /\ OthersUnchanged(last_call'.arg.symbol)
             /\ limit_down_queues' = limit_down_queues
       /\ (DrainsDown /\ ~StillAtLimitDown(last_call')) =>
             /\ last_call'.ret = limit_down_queues[last_call'.arg.symbol]
             /\ InArrivalOrder(last_call'.ret)
             /\ limit_down_queues'[last_call'.arg.symbol] = <<>>
             /\ OthersUnchanged(last_call'.arg.symbol)
             /\ limit_up_queues' = limit_up_queues]_vars

\* A drain at an opened price has returned three or more orders while an order
\* of the other symbol stays queued
C16_Witness ==
    /\ last_call.op = "try_fill_limit_up_orders"
    /\ ~StillAtLimitUp(last_call)
    /\ Len(last_call.ret) >= 3
    /\ limit_up_queues[last_call.arg.symbol] = <<>>
    /\ \E x \in Symbols \ {last_call.arg.symbol} : limit_up_queues[x] # <<>>

\* The drain returned the first k entries of q and left the others, in order
FrontReleased(q, ret, rest, k) ==
    /\ Len(ret) = k
    /\ \A i \in 1..k : ret[i] = q[i]
    /\ Len(rest) = Len(q) - k
    /\ \A i \in 1..(Len(q) - k) : rest[i] = q[k + i]

(* C17: while the price is still at the limit, a drain of a queue of n >= 1 *)
(* orders returns exactly max(1, n div 10) orders, the front ones in FIFO   *)
(* order, and the other orders stay queued in their order.                  *)
C17_StuckDrainReleasesTenth ==
    [][/\ (DrainsUp /\ StillAtLimitUp(last_call')
              /\ limit_up_queues[last_call'.arg.symbol] # <<>>) =>
             LET q == limit_up_queues[last_call'.arg.symbol]
                 k == IF Len(q) \div 10 > 1 THEN Len(q) \div 10 ELSE 1
             IN FrontReleased(q, last_call'.ret,
                              limit_up_queues'[last_call'.arg.symbol], k)
       /\ (DrainsDown /\ StillAtLimitDown(last_call')
              /\ limit_down_queues[last_call'.arg.symbol] # <<>>) =>
             LET q == limit_down_queues[last_call'.arg.symbol]
                 k == IF Len(q) \div 10 > 1 THEN Len(q) \div 10 ELSE 1
             IN FrontReleased(q, last_call'.ret,
                              limit_down_queues'[last_call'.arg.symbol], k)]_vars

\* A drain at the limit has released two orders of a queue of twenty or more
C17_Witness ==
    /\ last_call.op = "try_fill_limit_up_orders"
    /\ StillAtLimitUp(last_call)
    /\ Len(last_call.ret) = 2
    /\ Len(limit_up_queues[last_call.arg.symbol]) >= 18

\* The matcher reports a price-limit condition for `order` at tick t
AtLimitVerdict(order, t) ==
    try_match_order(matcher_build, order, t, TRUE, 0).reject_reason
        \in {"Price at limit up", "Price at limit down",
             "Price at limit up - queuing", "Price at limit down - queuing"}

\* Order id is in the queue that holds the orders of its side, after the step
ParkedAfter(id) ==
    IF orders[id].side = "BUY"
    THEN \E k \in DOMAIN limit_up_queues'[orders[id].symbol] :
            limit_up_queues'[orders[id].symbol][k].order_id = id
    ELSE \E k \in DOMAIN limit_down_queues'[orders[id].symbol] :
            limit_down_queues'[orders[id].symbol][k].order_id = id

(* C13: an order for which the matcher reports a price-limit condition      *)
(* during on_tick is, when on_tick returns, still PENDING with its          *)
(* reservation in place and in the limit-up (BUY) or limit-down (SELL)      *)
(* queue of its symbol.                                                     *)
C13_LimitVerdictParks ==
    [][last_call'.op = "on_tick" =>
          \A i \in PendingOf(last_call'.arg.symbol) :
              AtLimitVerdict(orders[i], last_call'.arg) =>
                  /\ orders'[i].status = "PENDING"
                  /\ orders[i].side = "BUY" => frozen_cash' >= Reserved(orders[i])
                  /\ ParkedAfter(i)]_vars

\* The step appends a TradeRecord of order id
TradesNow(id) ==
    \E k \in (Len(trade_history) + 1)..Len(trade_history') :
        trade_history'[k].order_id = id

(* C14: when cancel_order(id) returns true for an order held in a limit     *)
(* queue, the order is in neither queue afterwards, its reservation is      *)
(* released and it is CANCELLED; no later on_tick records a trade of a      *)
(* CANCELLED order.                                                         *)
C14_CancelParkedOrder ==
    [][/\ (/\ last_call'.op = "cancel_order"
           /\ last_call'.ret = TRUE
           /\ Parked(last_call'.arg)) =>
              /\ ~ParkedIn(limit_up_queues', limit_down_queues', last_call'.arg)
              /\ orders'[last_call'.arg].status = "CANCELLED"
              /\ frozen_cash' = frozen_cash - Min(frozen_cash, Reserved(orders[last_call'.arg]))
       /\ \A i \in DOMAIN orders : orders[i].status = "CANCELLED" => ~TradesNow(i)]_vars

(* C15: an on_tick drains the limit queues of the tick's symbol: when the   *)
(* matcher finds no PENDING order of the symbol at the price limit, both    *)
(* queues of the symbol are empty when on_tick returns, and the trades of   *)
(* the orders that were queued are recorded before those of the other       *)
(* orders of the symbol.                                                    *)
C15_DrainBeforeMatching ==
    [][last_call'.op = "on_tick" =>
          /\ (\A i \in PendingOf(last_call'.arg.symbol) :
                  ~AtLimitVerdict(orders[i], last_call'.arg)) =>
                 /\ limit_up_queues'[last_call'.arg.symbol] = <<>>
                 /\ limit_down_queues'[last_call'.arg.symbol] = <<>>
          /\ \A j, k \in (Len(trade_history) + 1)..Len(trade_history') :
                 (j < k /\ Parked(trade_history'[k].order_id))
                     => Parked(trade_history'[j].order_id)]_vars

\* Thread t returns from submit_order in this step
Returns(t) == threads[t].pc = "named" /\ threads'[t].pc = "idle"

(* C20: under every interleaving of concurrent submit_order calls, also of  *)
(* calls that end REJECTED, the id a call returns was returned by no        *)
(* earlier call, and its order is stored under that id without replacing    *)
(* or changing the entry of another order.                                  *)
C20_OrderIdsDistinct ==
    [][\A t \in ThreadIds :
          Returns(t) =>
              /\ last_call'.ret = threads[t].order_id
              /\ last_call'.ret \notin DOMAIN orders
              /\ last_call'.ret \in DOMAIN orders'
              /\ \A i \in DOMAIN orders : i \in DOMAIN orders' /\ orders'[i] = orders[i]]_vars

\* Three calls have returned, one of them REJECTED and one PENDING, the last
\* one made by t2 while t1 was waiting for the mutex or outside the call
C20_Witness ==
    /\ last_call.op = "submit_order"
    /\ last_call.arg = "t2"
    /\ DOMAIN orders = 1..3
    /\ \E i, j \in DOMAIN orders :
          orders[i].status = "REJECTED" /\ orders[j].status = "PENDING"

(* C19: a getter that runs while an on_tick is in progress returns the      *)
(* value it has on the ledger as it was before that on_tick or as it is     *)
(* after it, never a value of a state in between.                           *)
C19_ReadersSeeWholeTicks ==
    [][(last_call'.op \in Getters /\ tick_run # NoTick) =>
          \/ last_call'.ret = GetterValue(last_call'.op, last_call'.arg, tick_run.pre)
          \/ last_call'.ret = GetterValue(last_call'.op, last_call'.arg, tick_run.X.a)]_vars

\* The ledger calls of an on_tick end on the ledger on_tick leaves
TickRunEndsOnResult ==
    (tick_run # NoTick /\ tick_run.calls = <<>>) => Account = tick_run.X.a

\* The matcher accepts order i on tick t, whatever the slippage drawn
MatchSucceeds(i, t) == try_match_order(matcher_build, orders[i], t, TRUE, 0).success

\* The on_tick of the step matches order i and rejects it inside process_fill
FillFailsNow(i) ==
    /\ last_call'.op = "on_tick"
    /\ orders[i].status = "PENDING"
    /\ orders[i].symbol = last_call'.arg.symbol
    /\ MatchSucceeds(i, last_call'.arg)
    /\ orders'[i].status = "REJECTED"

\* The cash reserved for the first n orders that are PENDING BUY orders in
\* `before` and no longer PENDING in `after`
RECURSIVE ReleasedCash(_, _, _)
ReleasedCash(before, after, n) ==
    IF n = 0 THEN 0
    ELSE ReleasedCash(before, after, n - 1)
         + (IF /\ before[n].status = "PENDING" /\ before[n].side = "BUY"
               /\ after[n].status # "PENDING"
            THEN Reserved(before[n]) ELSE 0)

\* The shares of s frozen for the first n orders that are PENDING SELL orders
\* in `before` and no longer PENDING in `after`
RECURSIVE ReleasedVolume(_, _, _, _)
ReleasedVolume(before, after, s, n) ==
    IF n = 0 THEN 0
    ELSE ReleasedVolume(before, after, s, n - 1)
         + (IF /\ before[n].status = "PENDING" /\ before[n].side = "SELL"
               /\ before[n].symbol = s /\ after[n].status # "PENDING"
            THEN before[n].volume ELSE 0)

\* The frozen shares of a position of the ledger
FrozenVolumeOf(pos) == IF pos = NoPosition THEN 0 ELSE pos.frozen_volume

(* C21: when a fill fails inside process_fill (BUY: freeze_cash of the      *)
(* actual cost fails; SELL: reduce_position fails), on_tick leaves the      *)
(* order REJECTED with no TradeRecord, and frozen_cash and the frozen       *)
(* volumes drop by exactly the reservations of the orders that left         *)
(* PENDING in the tick: the failed order's own reservation is released      *)
(* once and the reservations of the orders still PENDING are untouched.     *)
C21_FailedFillReleasesOnce ==
    [][\A i \in DOMAIN orders :
          FillFailsNow(i) =>
              /\ ~TradesNow(i)
              /\ frozen_cash' = frozen_cash - ReleasedCash(orders, orders', Len(orders))
              /\ \A s \in Symbols :
                    FrozenVolumeOf(positions'[s]) =
                        FrozenVolumeOf(positions[s])
                        - ReleasedVolume(orders, orders', s, Len(orders))]_vars

(* C22: every TradeRecord of the trade history, of a BUY or of a SELL, has *)
(* a commission of at least 5.00.                                           *)
C22_CommissionFloor ==
    \A k \in DOMAIN trade_history : trade_history[k].commission >= 500

\* A BUY was charged exactly the minimum and a SELL the minimum plus stamp duty
C22_Witness ==
    /\ \E k \in DOMAIN trade_history :
          trade_history[k].side = "BUY" /\ trade_history[k].commission = 500
    /\ \E k \in DOMAIN trade_history :
          trade_history[k].side = "SELL" /\ trade_history[k].commission > 500

\* The last call was try_match_order
MatcherCalled == last_call.op = "try_match_order"

\* The volumes the claimed validation rejects
InvalidVolume(volume, side) ==
    \/ volume <= 0
    \/ volume > 1000000
    \/ side = "BUY" /\ volume % 100 # 0

(* C23: try_match_order returns a non-success result whose reason names the *)
(* tick price whenever tick.last_price <= 0, and for a LIMIT order a        *)
(* non-success result whose reason names the limit price whenever           *)
(* order.price <= 0, whatever the quotes and check_price_limit (stated for  *)
(* the orders whose volume is valid).                                       *)
C23_InvalidPricesRejected ==
    (MatcherCalled /\ ~InvalidVolume(last_call.arg.order.volume, last_call.arg.order.side)) =>
        /\ last_call.arg.tick.last_price <= 0 =>
              /\ ~last_call.ret.success
              /\ Mentions(last_call.ret.reject_reason, "tick price")
        /\ (last_call.arg.order.type = "LIMIT" /\ last_call.arg.order.price <= 0) =>
              /\ ~last_call.ret.success
              /\ Mentions(last_call.ret.reject_reason, "limit price")

(* C24: check_limit_price returns false whenever last_close <= 0 or         *)
(* price <= 0, and true when both are positive and the price lies within    *)
(* last_close * (1 -/+ pct) for the limit percentage of the symbol.         *)
C24_CheckLimitPriceValidates ==
    last_call.op = "check_limit_price" =>
        LET symbol     == last_call.arg.symbol
            price      == last_call.arg.price
            last_close == last_call.arg.last_close
            pct        == get_limit_pct(symbol)
        IN
        /\ (last_close <= 0 \/ price <= 0) => last_call.ret = FALSE
        /\ (/\ last_close > 0 /\ price > 0
            /\ price * 100 >= last_close * (100 - pct)
            /\ price * 100 <= last_close * (100 + pct)) => last_call.ret = TRUE

\* The reasons of the volume validation
VolumeReasons ==
    {"Order volume must be positive", "Order volume exceeds maximum (1,000,000 shares)",
     "Buy volume must be multiple of 100 (lot size)",
     "Sell volume exceeds available volume"}

(* C25: try_match_order rejects for its volume exactly the orders with      *)
(* volume <= 0, volume > 1,000,000 (the reason mentions the maximum) or,    *)
(* for a BUY, a volume that is not a multiple of 100; a SELL of 1 to        *)
(* 1,000,000 shares passes the validation, and a MARKET order of 100 shares *)
(* on a tick with positive quotes matches with filled_volume 100.           *)
C25_VolumeValidation ==
    MatcherCalled =>
        LET order == last_call.arg.order
            tick  == last_call.arg.tick
            ret   == last_call.ret
        IN
        /\ InvalidVolume(order.volume, order.side) <=>
              (~ret.success /\ ret.reject_reason \in VolumeReasons)
        /\ order.volume > 1000000 => Mentions(ret.reject_reason, "maximum")
        /\ (/\ order.type = "MARKET" /\ order.volume = 100
            /\ tick.last_price > 0 /\ tick.bid_price > 0 /\ tick.ask_price > 0) =>
              ret.success /\ ret.filled_volume = 100

\* The statuses of the orders of a registry
StatusesOf(os) == [i \in DOMAIN os |-> os[i].status]

(* C26: two exchanges created with the same initial capital and driven by   *)
(* the same sequence of submit_order, on_tick, cancel_order and settlement  *)
(* calls have the same order statuses and the same trade records (order,    *)
(* prices, volumes and commissions).                                        *)
C26_Deterministic ==
    /\ StatusesOf(twin.orders) = StatusesOf(orders)
    /\ twin.trade_history = trade_history

(* C27: while strategy threads submit and cancel orders and an on_tick     *)
(* makes its ledger calls one by one, available_cash and frozen_cash are    *)
(* never negative; whenever frozen_cash grows, a freeze_cash succeeded, and *)
(* its amount was at most the available_cash before it and moved from       *)
(* available_cash to frozen_cash; a submit_order whose freeze_cash fails    *)
(* leaves both buckets unchanged.                                           *)
C27_CashBucketsNonNegative ==
    [][/\ available_cash' >= 0
       /\ frozen_cash' >= 0
       /\ frozen_cash' > frozen_cash =>
             /\ frozen_cash' - frozen_cash <= available_cash
             /\ available_cash' = available_cash - (frozen_cash' - frozen_cash)
       /\ (Submits /\ NewOrder.side = "BUY" /\ NewOrder.status = "REJECTED") =>
             /\ available_cash' = available_cash
             /\ frozen_cash' = frozen_cash]_vars

\* An on_tick is between two ledger calls with all the cash frozen, and a BUY
\* was refused at submission for lack of cash
C27_Witness ==
    /\ tick_run # NoTick
    /\ tick_run.calls # <<>>
    /\ available_cash = 0
    /\ frozen_cash > 0
    /\ \E i \in DOMAIN orders : orders[i].side = "BUY" /\ orders[i].status = "REJECTED"

(* C28: the commission of every TradeRecord equals                         *)
(* calculate_total_commission(side, symbol, filled price, filled volume,    *)
(* commission_rate of the order): the broker fee with its 5.00 minimum at   *)
(* the order's own rate, stamp duty for a SELL and the transfer fee of      *)
(* 0.00002 per share for Shanghai symbols, rounded to cents.                *)
C28_CommissionIsTotalCommission ==
    \A k \in DOMAIN trade_history :
        LET trade == trade_history[k] IN
        trade.commission =
            calculate_total_commission(trade.side, trade.symbol, trade.price, trade.volume,
                                       orders[trade.order_id].commission_rate)

\* The matcher leaves PENDING order i unmatched on tick t because the quote
\* does not meet its limit price
PriceUnmet(i, t) ==
    /\ orders[i].status = "PENDING"
    /\ orders[i].symbol = t.symbol
    /\ orders[i].type = "LIMIT"
    /\ try_match_order(matcher_build, orders[i], t, TRUE, 0).reject_reason
          \in {"Buy limit price too low", "Sell limit price too high"}

\* The fields of a position that a price refresh does not write
HoldingOf(pos) ==
    IF pos = NoPosition THEN pos
    ELSE [volume |-> pos.volume, available_volume |-> pos.available_volume,
          frozen_volume |-> pos.frozen_volume, avg_cost |-> pos.avg_cost,
          buy_date |-> pos.buy_date]

(* C30: an on_tick leaves a PENDING LIMIT order whose price is unmet (BUY:  *)
(* ask above its price, SELL: bid below its price) exactly as it was; when  *)
(* every PENDING order of the tick's symbol is such an order, the cash      *)
(* buckets, the frozen volumes, the holdings and the trade history are      *)
(* unchanged too, and only the price fields of the position of the tick's   *)
(* symbol may differ.                                                       *)
C30_UnmetLimitFrame ==
    [][last_call'.op = "on_tick" =>
          LET t == last_call'.arg IN
          /\ \A i \in DOMAIN orders : PriceUnmet(i, t) => orders'[i] = orders[i]
          /\ (/\ \E i \in DOMAIN orders : PriceUnmet(i, t)
              /\ \A j \in PendingOf(t.symbol) : PriceUnmet(j, t)) =>
                /\ orders' = orders
                /\ trade_history' = trade_history
                /\ available_cash' = available_cash
                /\ frozen_cash' = frozen_cash
                /\ withdrawable_cash' = withdrawable_cash
                /\ \A s \in Symbols :
                      /\ HoldingOf(positions'[s]) = HoldingOf(positions[s])
                      /\ s # t.symbol => positions'[s] = positions[s]]_vars

\* After an on_tick a BUY and a SELL LIMIT order of the tick's symbol are both
\* PENDING with an unmet price, their reservations are in place, and the held
\* position carries the tick's last price
C30_Witness ==
    /\ last_call.op = "on_tick"
    /\ \E i \in DOMAIN orders :
          /\ orders[i].side = "BUY" /\ PriceUnmet(i, last_call.arg)
          /\ frozen_cash >= Reserved(orders[i])
    /\ \E i \in DOMAIN orders :
          /\ orders[i].side = "SELL" /\ PriceUnmet(i, last_call.arg)
          /\ positions[orders[i].symbol].frozen_volume >= orders[i].volume
    /\ positions[last_call.arg.symbol].current_price = last_call.arg.last_price
    /\ positions[last_call.arg.symbol].current_price
          # positions[last_call.arg.symbol].avg_cost

\* Thread t is at the lock_guard of mutex m
Wants(t, m) ==
    /\ Running(t)
    /\ threads[t].todo # <<>>
    /\ Head(threads[t].todo) = Lock(m)

\* No thread takes the exchange's mutex while it holds the account's or the
\* queue's
LockOrderRespected ==
    \A t \in ThreadIds :
        Wants(t, "exchange") => (account_mutex_ # t /\ queue_mutex_ # t)

\* No thread locks a mutex it holds
NoRelock == \A t \in ThreadIds, m \in Mutexes : Wants(t, m) => holder(m) # t

(* C29: no thread acquires the exchange's mutex while it holds the          *)
(* account's or the queue's mutex, no thread locks a mutex it already       *)
(* holds, and every call that a thread has begun, among concurrent          *)
(* submit_order, on_tick, cancel_order, settlement, getter and queue calls, *)
(* eventually returns.                                                      *)
C29_LockOrderAndProgress ==
    /\ [](LockOrderRespected /\ NoRelock)
    /\ \A t \in ThreadIds : Running(t) ~> ~Running(t)

\* One thread is inside a ledger call of an exchange call, holding both
\* mutexes, while the other waits for the account's mutex
C29_Witness ==
    /\ mutex_ = "t1"
    /\ account_mutex_ = "t1"
    /\ Wants("t2", "account")

\* The matcher refuses PENDING order i on tick t for its volume against the
\* volume of the tick
LiquidityRejects(i, t) ==
    /\ orders[i].status = "PENDING"
    /\ orders[i].symbol = t.symbol
    /\ try_match_order(matcher_build, orders[i], t, TRUE, 0).reject_reason
          = "Insufficient liquidity"

\* Order i has a matchable price inside the daily limit on tick t and a volume
\* the matcher accepts as a volume
MatchableApartFromLiquidity(i, t) ==
    /\ orders[i].status = "PENDING"
    /\ orders[i].symbol = t.symbol
    /\ try_match_order(matcher_build, orders[i], [t EXCEPT !.volume = 0], TRUE, 0).success

(* C31: if tick.volume > 0 and a PENDING order with a matchable price       *)
(* inside the daily limit has a volume above tick.volume div 10, then after *)
(* on_tick the order is REJECTED, no TradeRecord was appended for it and    *)
(* frozen_cash and the frozen shares dropped by the reservations of the     *)
(* orders that left PENDING; if tick.volume <= 0 an order that is           *)
(* otherwise matchable is never rejected for liquidity: it goes to          *)
(* process_fill.                                                            *)
C31_LiquidityCap ==
    [][last_call'.op = "on_tick" =>
          LET t == last_call'.arg IN
          \A i \in DOMAIN orders :
              /\ (/\ t.volume > 0
                  /\ MatchableApartFromLiquidity(i, t)
                  /\ orders[i].volume > t.volume \div 10) =>
                    /\ orders'[i].status = "REJECTED"
                    /\ ~TradesNow(i)
                    /\ frozen_cash' = frozen_cash - ReleasedCash(orders, orders', Len(orders))
                    /\ FrozenVolumeOf(positions'[t.symbol]) =
                          FrozenVolumeOf(positions[t.symbol])
                          - ReleasedVolume(orders, orders', t.symbol, Len(orders))
              /\ (t.volume <= 0 /\ MatchableApartFromLiquidity(i, t)) =>
                    /\ ~LiquidityRejects(i, t)
                    /\ TradesNow(i) \/ FillFailsNow(i)]_vars

(* C32: can_sell(symbol, volume, current_date) is true iff a position     *)
(* for symbol exists and either buy_date < current_date and                 *)
(* volume <= position.volume - frozen_volume, or buy_date = current_date    *)
(* and volume <= available_volume; it is false when                         *)
(* buy_date > current_date.                                                 *)
C32_CanSellRule ==
    last_call.op = "can_sell" =>
        LET pos          == positions[last_call.arg.symbol]
            volume       == last_call.arg.volume
            current_date == last_call.arg.current_date
        IN
        last_call.ret <=>
            /\ pos # NoPosition
            /\ \/ pos.buy_date < current_date /\ volume <= pos.volume - pos.frozen_volume
               \/ pos.buy_date = current_date /\ volume <= pos.available_volume

\* The submit_order that has just returned stored order id as PENDING
JustSubmitted(id) ==
    /\ last_call.op = "submit_order"
    /\ last_call.ret = id
    /\ id \in DOMAIN orders
    /\ orders[id].status = "PENDING"

\* cancel_order(id) is the call being made
Cancels(id) == last_call'.op = "cancel_order" /\ last_call'.arg = id

(* C33: submit followed by cancel is a round trip on the ledger.  A          *)
(* submit_order that stores a PENDING order moves exactly its reservation    *)
(* from available_cash to frozen_cash (BUY) or adds its volume to the        *)
(* position's frozen_volume (SELL) and changes nothing else of the two; a    *)
(* cancel_order of that order with no call in between returns true and       *)
(* moves exactly the same amount back, so the three values are those from    *)
(* before the submit.                                                        *)
C33_SubmitCancelRoundTrip ==
    [][/\ (Submits /\ NewOrder.status = "PENDING") =>
             IF NewOrder.side = "BUY"
             THEN /\ available_cash' = available_cash - Reserved(NewOrder)
                  /\ frozen_cash' = frozen_cash + Reserved(NewOrder)
                  /\ positions' = positions
             ELSE /\ FrozenVolumeOf(positions'[NewOrder.symbol])
                        = FrozenVolumeOf(positions[NewOrder.symbol]) + NewOrder.volume
                  /\ available_cash' = available_cash
                  /\ frozen_cash' = frozen_cash
       /\ \A id \in DOMAIN orders :
             (JustSubmitted(id) /\ Cancels(id)) =>
                 /\ last_call'.ret = TRUE
                 /\ orders'[id].status = "CANCELLED"
                 /\ IF orders[id].side = "BUY"
                    THEN /\ available_cash' = available_cash + Reserved(orders[id])
                         /\ frozen_cash' = frozen_cash - Reserved(orders[id])
                         /\ positions' = positions
                    ELSE /\ FrozenVolumeOf(positions'[orders[id].symbol])
                               = FrozenVolumeOf(positions[orders[id].symbol]) - orders[id].volume
                         /\ available_cash' = available_cash
                         /\ frozen_cash' = frozen_cash]_vars

\* A BUY order was cancelled earlier and a SELL order has just been
\* cancelled, with nothing left reserved
C33_Witness ==
    /\ last_call.op = "cancel_order"
    /\ last_call.ret = TRUE
    /\ orders[last_call.arg].side = "SELL"
    /\ orders[last_call.arg].status = "CANCELLED"
    /\ positions[orders[last_call.arg].symbol].frozen_volume = 0
    /\ frozen_cash = 0
    /\ \E i \in DOMAIN orders : orders[i].side = "BUY" /\ orders[i].status = "CANCELLED"

\* The sum of the reservations of the PENDING BUY orders among the first n
RECURSIVE ReservedCash(_, _)
ReservedCash(os, n) ==
    IF n = 0 THEN 0
    ELSE ReservedCash(os, n - 1)
         + (IF os[n].side = "BUY" /\ os[n].status = "PENDING" THEN Reserved(os[n]) ELSE 0)

RECURSIVE PendingSellVolume(_, _, _)
PendingSellVolume(os, s, n) ==
    IF n = 0 THEN 0
    ELSE PendingSellVolume(os, s, n - 1)
         + (IF os[n].side = "SELL" /\ os[n].status = "PENDING" /\ os[n].symbol = s
            THEN os[n].volume ELSE 0)

(* C35: after every public call, for every symbol the position's            *)
(* frozen_volume equals the sum of the volumes of the PENDING SELL orders   *)
(* for that symbol, and a symbol with no position has no PENDING SELL order *)
C35_FrozenVolumeIsPendingSells ==
    \A s \in Symbols :
        FrozenVolumeOf(positions[s]) = PendingSellVolume(orders, s, Len(orders))

\* A tick has left a SELL order PENDING beside a FILLED one, and its shares
\* are the frozen ones
C35_Witness ==
    /\ last_call.op = "on_tick"
    /\ \E i \in DOMAIN orders :
          /\ orders[i].side = "SELL"
          /\ orders[i].status = "PENDING"
          /\ orders[i].symbol = last_call.arg.symbol
          /\ positions[orders[i].symbol].frozen_volume = orders[i].volume
    /\ \E j \in DOMAIN orders : orders[j].status = "FILLED"

\* The places in trade_history of the records that carry order_id id
TradesOf(id) == {k \in DOMAIN trade_history : trade_history[k].order_id = id}

\* FILLED orders and trade records correspond one to one
TradesMatchFilledOrders ==
    /\ \A i \in DOMAIN orders :
          orders[i].status = "FILLED" =>
              /\ Cardinality(TradesOf(i)) = 1
              /\ orders[i].filled_volume = orders[i].volume
              /\ \A k \in TradesOf(i) :
                    /\ trade_history[k].side = orders[i].side
                    /\ trade_history[k].symbol = orders[i].symbol
                    /\ trade_history[k].volume = orders[i].volume
    /\ \A k \in DOMAIN trade_history :
          /\ trade_history[k].order_id \in DOMAIN orders
          /\ orders[trade_history[k].order_id].status = "FILLED"
    /\ \A k, l \in DOMAIN trade_history :
          k # l => trade_history[k].trade_id # trade_history[l].trade_id

\* trade_history is only appended to
HistoryGrows ==
    /\ Len(trade_history') >= Len(trade_history)
    /\ SubSeq(trade_history', 1, Len(trade_history)) = trade_history

(* C36: trade history and FILLED orders correspond one to one: every FILLED *)
(* order has exactly one TradeRecord with its order_id, side, symbol and    *)
(* filled_volume = order.volume; every TradeRecord refers to a FILLED       *)
(* order; trade_ids are pairwise distinct; and the history only grows, its  *)
(* existing records never changed or removed.                               *)
C36_TradesAndFilledOrders ==
    []TradesMatchFilledOrders /\ [][HistoryGrows]_vars

\* Two orders are FILLED, a BUY and a SELL, and the history holds two records
C36_Witness ==
    /\ Len(trade_history) = 2
    /\ \E i, j \in DOMAIN orders :
          /\ orders[i].status = "FILLED" /\ orders[i].side = "BUY"
          /\ orders[j].status = "FILLED" /\ orders[j].side = "SELL"
    /\ \E i \in DOMAIN orders : orders[i].status \in {"REJECTED", "CANCELLED"}

(* C37: when price-limit checking is enabled and tick.last_close > 0,      *)
(* every successful match has its filled_price, slippage included, inside   *)
(* the daily band [last_close (1 - pct), last_close (1 + pct)] of the tick. *)
C37_FilledPriceInsideBand ==
    (/\ last_call.op = "try_match_order"
     /\ last_call.arg.check_price_limit
     /\ last_call.arg.tick.last_close > 0
     /\ last_call.ret.success) =>
        LET pct        == get_limit_pct(last_call.arg.order.symbol)
            last_close == last_call.arg.tick.last_close
        IN
        /\ last_call.ret.filled_price * 100 >= last_close * (100 - pct)
        /\ last_call.ret.filled_price * 100 <= last_close * (100 + pct)

\* How many entries of the queues of qs carry order_id id
EntriesIn(qs, id) ==
    {<<s, i>> \in Symbols \X (1..(MaxQueued + MaxRequeued)) :
        i \in DOMAIN qs[s] /\ qs[s][i].order_id = id}

Held(id) == Cardinality(EntriesIn(limit_up_queues, id))
            + Cardinality(EntriesIn(limit_down_queues, id))

(* C38: in the limit queues an order_id is held at most once across all     *)
(* symbols and both directions, so after remove_from_queue(id) returned     *)
(* true no entry with that id remains in any queue.                         *)
C38_QueuedAtMostOnce ==
    /\ \A order \in RequeueOrders : Held(order.order_id) <= 1
    /\ (last_call.op = "remove_from_queue" /\ last_call.ret = TRUE) =>
           Held(last_call.arg) = 0

\* cancel_order(id) wins: it returns true, the order was PENDING and is now
\* CANCELLED, its reservation went back once and no trade was recorded
CancelTakesEffect(id) ==
    /\ orders[id].status = "PENDING"
    /\ orders'[id].status = "CANCELLED"
    /\ trade_history' = trade_history
    /\ IF orders[id].side = "BUY"
       THEN /\ frozen_cash' = frozen_cash - Reserved(orders[id])
            /\ available_cash' = available_cash + Reserved(orders[id])
       ELSE FrozenVolumeOf(positions'[orders[id].symbol])
               = FrozenVolumeOf(positions[orders[id].symbol]) - orders[id].volume

\* The on_tick that returns now wins for order i, which it could fill: the
\* order is FILLED with one trade, and the reservations released by the tick
\* are those of the orders that left PENDING
TickTakesEffect(i) ==
    /\ orders'[i].status = "FILLED"
    /\ Cardinality({k \in (Len(trade_history) + 1)..Len(trade_history') :
                       trade_history'[k].order_id = i}) = 1
    /\ frozen_cash' = tick_run.pre.frozen_cash - ReleasedCash(orders, orders', Len(orders))

(* C39: when cancel_order(id) races with an on_tick that can fill the same  *)
(* PENDING order, exactly one of them takes effect: either cancel_order     *)
(* returns true and no TradeRecord for id is ever appended, or the order is *)
(* FILLED and cancel_order returns false; in both outcomes the reservation  *)
(* is released exactly once.                                                *)
C39_CancelOrFillNotBoth ==
    /\ [](\A k \in DOMAIN trade_history :
             orders[trade_history[k].order_id].status # "CANCELLED")
    /\ [][/\ \A id \in DOMAIN orders :
                (/\ last_call'.op = "cancel_order" /\ last_call'.arg = id
                 /\ tick_run = NoTick /\ tick_run' = NoTick) =>
                    IF last_call'.ret = TRUE THEN CancelTakesEffect(id)
                    ELSE /\ orders[id].status # "PENDING"
                         /\ UNCHANGED <<orders, trade_history, frozen_cash,
                                        available_cash, positions>>
          /\ \A i \in DOMAIN orders :
                (/\ tick_run # NoTick /\ tick_run' = NoTick
                 /\ orders[i].status = "PENDING"
                 /\ orders[i].symbol = tick_run.tick.symbol
                 /\ MatchSucceeds(i, tick_run.tick)) => TickTakesEffect(i)]_vars

\* The price a MARKET order is matched at: ask for BUY, bid for SELL
ReferencePrice(order, t) == IF order.side = "BUY" THEN t.ask_price ELSE t.bid_price

\* price lies inside the daily band of symbol around last_close
InsideBand(symbol, price, last_close) ==
    /\ price * 100 >= last_close * (100 - get_limit_pct(symbol))
    /\ price * 100 <= last_close * (100 + get_limit_pct(symbol))

(* C40: after on_tick(tick) returns, every MARKET order for tick.symbol     *)
(* that was PENDING before the call and whose reference price (ask for      *)
(* BUY, bid for SELL) lies inside the daily limit band, or whose tick has   *)
(* no last_close to take a band from, is FILLED or REJECTED; orders for     *)
(* other symbols are left exactly as they were.                             *)
C40_MarketOrdersSettle ==
    [][last_call'.op = "on_tick" =>
          LET t == last_call'.arg IN
          \A i \in DOMAIN orders :
              /\ (/\ orders[i].status = "PENDING"
                  /\ orders[i].type = "MARKET"
                  /\ orders[i].symbol = t.symbol
                  /\ \/ t.last_close <= 0
                     \/ InsideBand(t.symbol, ReferencePrice(orders[i], t), t.last_close)) =>
                     orders'[i].status \in {"FILLED", "REJECTED"}
              /\ orders[i].symbol # t.symbol => orders'[i] = orders[i]]_vars

\* A tick has filled one MARKET order and rejected another of its symbol
C40_Witness ==
    /\ last_call.op = "on_tick"
    /\ \E i, j \in DOMAIN orders :
          /\ orders[i].type = "MARKET" /\ orders[i].symbol = last_call.arg.symbol
          /\ orders[j].type = "MARKET" /\ orders[j].symbol = last_call.arg.symbol
          /\ orders[i].status = "FILLED"
          /\ orders[j].status = "REJECTED"
          /\ orders[j].side = "SELL"
          /\ i < j

====
